---- MODULE Spec2Model ----
(***************************************************************************)
(* Model of the publish/subscribe core of the repository.                  *)
(*                                                                         *)
(*  - PubSubWithQueue (src/demo.py): the registry topic -> name -> queue,  *)
(*    called by several threads.  The class takes no lock, so every        *)
(*    statement that touches self.sub_list or a queue is one step of the   *)
(*    calling thread and steps of different threads interleave.            *)
(*  - TestSubscriber._listen_queue (src/demo.py): one worker per mailbox.  *)
(*  - CommunicationQueue (src/communication_queue.py): the bounded mailbox *)
(*    with allow-list, drop counter and hooks.                             *)
(***************************************************************************)
EXTENDS Integers, Sequences, FiniteSets, TLC

\* ---------------------------------------------------------------- bounds
MaxQueues == 2      \* queue.Queue objects created, calls of one thread at a time
MaxPub == 2         \* messages built, calls of one thread at a time
MaxResubQueues == 3 \* queue.Queue objects created, room for a replaced mailbox
MaxResubPub == 1    \* messages built, room for a replaced mailbox
MaxRaceQueues == 2  \* queue.Queue objects created, two threads racing
MaxRacePub == 1     \* messages built, two threads racing
MaxLiveQueues == 2  \* queue.Queue objects created, fair workers
MaxLivePub == 1     \* messages built, fair workers
MaxEmPub == 2       \* messages published through the EventManager
MaxStopPub == 1     \* messages published while the EventManager is stopped
MaxRoutePub == 1    \* messages published with any of the message types

Threads == {"t1", "t2"}
\* The threads EventManager.process_messages starts, one per message, in the
\* order it starts them.
HandlerNames == <<"h1", "h2", "h3", "h4">>
Handlers == {HandlerNames[k] : k \in 1..Len(HandlerNames)}
Callers == Threads \cup Handlers
UNKNOWN == "UNKNOWN"
Topics == {UNKNOWN, "FROM_TASK"}
Names == {"", "s1", "s2"}
\* A message is <<producer, number>>; None is the value of the exit signal.
None == <<"None", 0>>

VARIABLES
    sub_list,   \* PubSubWithQueue.sub_list: topic -> insertion-ordered dict name -> queue
    queues,     \* contents of every queue.Queue created so far, by identity
    nextq,      \* identity of the next queue.Queue object
    pc,         \* statement each calling thread is at ("idle" between calls)
    loc,        \* the call's arguments and locals
    npub,       \* number of messages the thread has built so far
    wpc,        \* position of the worker of each mailbox
    whand,      \* message the worker holds while in its handler part
    received,   \* TestSubscriber.received_messages, per mailbox
    retired,    \* <<old, new>>: mailbox old was replaced by new in a subscribe call that has returned
    cq_maxsize, \* CommunicationQueue: maxsize of _inner_queue (0: unbounded)
    cq_types,   \* CommunicationQueue._message_types
    cq_inner,   \* contents of CommunicationQueue._inner_queue
    cq_dropped, \* CommunicationQueue._dropped_count
    cq_hooks,   \* CommunicationQueue._hooks: dict type -> list of callbacks
    cq_calls,   \* callbacks invoked by the last put, in order
    cq_seen,    \* per callback invoked: the message was in the queue at the call
    cq_out,     \* outcome of the last call on the CommunicationQueue
    cq_refused, \* message_id of every Message a put did not enqueue
    cq_nmsg,    \* Message objects built so far
    gbt,        \* get_by_type: position, arguments and locals of the call
    gbt_out,    \* get_by_type: what the last call returned
    ps_topics,  \* pubsub_module: topics, topic -> insertion-ordered dict sub_id -> queue
    ps_next,    \* pubsub_module: next_sub_id
    ps_queues,  \* pubsub_module: contents of every queue created, by identity
    ps_nextq,   \* pubsub_module: identity of the next queue.Queue object
    ps_pc,      \* pubsub_module: statement each calling thread is at
    ps_loc,     \* pubsub_module: the call's arguments and locals
    ps_npub,    \* pubsub_module: publish calls made so far
    ps_handles, \* pubsub_module: <<topic, sub_id, q>> returned by subscribe
    ps_wpc,     \* pubsub_module: position of the consumer thread of each queue
    ps_cb,      \* pubsub_module: consumer_callback of each queue
    ps_whand,   \* pubsub_module: message the consumer thread holds for its callback
    ps_handled, \* pubsub_module: messages each callback was called with
    em_running, \* EventManager._is_running
    em_i,       \* EventManager.process_messages: index in _subscribed_queues, 0 once the thread has ended
    em_nh,      \* handler threads process_messages has started
    em_data,    \* PubSubMessage.data["type"] of every message built ("" when there is none)
    em_called,  \* <<on_* method, message>> for every call of an on_* method
    em_sentinel, \* process_messages has dequeued None from one of its queues
    em_cleaned, \* EventManager.cleanup has returned
    em_pub,     \* the calls of pubsub.publish the on_* methods made: topic, message, its sender and data
    m_now,      \* Message: the value time.time() returns, in ticks
    m_made,     \* Message objects constructed so far, with the constructing thread
    m_out,      \* outcome of the last Message or MessageSerializer call
    bl_running, \* BusinessLogic.running
    bl_thread,  \* BusinessLogic: every _work_loop thread started, with its position and count; self.thread is the last
    bl_in,      \* BusinessLogic.input_queue: the "command" value of each command waiting
    bl_out,     \* BusinessLogic.output_queue: the messages put, in order
    bl_pc,      \* BusinessLogic: position of the caller of start() and of the command thread
    bl_cmd,     \* BusinessLogic._command_listener: the command it holds
    bl_sent,    \* commands the user interface has put so far
    tt,         \* TaskThread: its class, _target_func and _callback_func set or not, _stop_event, the position of run()
    asc         \* auto_stop_check: the decorated function, one call of its wrapper, the runner thread

regvars == <<sub_list, queues, nextq, pc, loc, npub, wpc, whand, received, retired>>
cqvars == <<cq_maxsize, cq_types, cq_inner, cq_dropped, cq_hooks, cq_calls, cq_seen, cq_out, cq_refused, cq_nmsg>>
gbtvars == <<gbt, gbt_out>>
msgvars == <<m_now, m_made, m_out>>
psvars == <<ps_topics, ps_next, ps_queues, ps_nextq, ps_pc, ps_loc, ps_npub, ps_handles,
            ps_wpc, ps_cb, ps_whand, ps_handled>>
emvars == <<em_running, em_i, em_nh, em_data, em_called, em_sentinel, em_cleaned, em_pub>>
blvars == <<bl_running, bl_thread, bl_in, bl_out, bl_pc, bl_cmd, bl_sent>>
appvars == <<blvars, tt, asc>>
vars == <<regvars, cqvars, gbtvars, msgvars, psvars, emvars, appvars>>

\* What the actions of one component leave alone.
outsideReg == <<cqvars, gbtvars, msgvars, psvars, emvars, appvars>>
outsideCQ == <<regvars, gbtvars, msgvars, psvars, emvars, appvars>>
outsideGbt == <<regvars, msgvars, psvars, emvars, appvars>>
outsideMsg == <<regvars, cqvars, gbtvars, psvars, emvars, appvars>>
outsidePs == <<regvars, cqvars, gbtvars, msgvars, emvars, appvars>>
outsideEm == <<cqvars, gbtvars, msgvars, psvars, appvars>>
outsideApp == <<regvars, cqvars, gbtvars, msgvars, psvars, emvars>>
outsideBl == <<outsideApp, tt, asc>>
outsideTt == <<outsideApp, blvars, asc>>
outsideAsc == <<outsideApp, blvars, tt>>

QueueBounds == {MaxQueues, MaxResubQueues, MaxRaceQueues, MaxLiveQueues}
QIds == 1..(CHOOSE m \in QueueBounds : \A x \in QueueBounds : x <= m)

\* ------------------------------------------------- Python dict and Queue
\* An insertion-ordered dict is a sequence of <<key, value>> pairs.
DictIdx(d, k) == {i \in 1..Len(d) : d[i][1] = k}
DictHas(d, k) == DictIdx(d, k) # {}
DictGet(d, k) == d[CHOOSE i \in DictIdx(d, k) : TRUE][2]
DictSet(d, k, v) ==
    IF DictHas(d, k)
    THEN [i \in 1..Len(d) |-> IF d[i][1] = k THEN <<k, v>> ELSE d[i]]
    ELSE Append(d, <<k, v>>)
DictDel(d, k) == SelectSeq(d, LAMBDA p : p[1] # k)
DictValues(d) == [i \in 1..Len(d) |-> d[i][2]]

\* queue.Queue() has maxsize 0: a put never finds the queue full and never waits.
QFullBounded(q) == Len(q) >= 1
QFull(q) == FALSE
QPutFront(q, m) == <<m>> \o q
QPut(q, m) == Append(q, m)

\* raised: the thread's last call ended by raising
NoLoc == [name |-> "", topic |-> UNKNOWN, msg |-> None, snap |-> <<>>, i |-> 0,
          inSub |-> FALSE, old |-> 0, raised |-> FALSE]

RegInit ==
    /\ sub_list = <<>>
    /\ queues = [q \in QIds |-> <<>>]
    /\ nextq = 1
    /\ pc = [t \in Callers |-> "idle"]
    /\ loc = [t \in Callers |-> NoLoc]
    /\ npub = [t \in Callers |-> 0]
    /\ wpc = [q \in QIds |-> "none"]
    /\ whand = [q \in QIds |-> None]
    /\ received = [q \in QIds |-> <<>>]
    /\ retired = {}

\* The call ends and the thread is back in its caller: Return with a value,
\* Raise with the KeyError of a failed dict access.
Return(t) ==
    /\ pc' = [pc EXCEPT ![t] = "idle"]
    /\ loc' = [loc EXCEPT ![t] = NoLoc]

Raise(t) ==
    /\ pc' = [pc EXCEPT ![t] = "idle"]
    /\ loc' = [loc EXCEPT ![t] = [NoLoc EXCEPT !.raised = TRUE]]

Goto(t, l) == pc' = [pc EXCEPT ![t] = l]

\* Room for one more queue.Queue and one more message within the bounds; the
\* queues of the subscribe calls in flight are counted.
InSubscribe == {t \in Threads : pc[t] \in {"L45", "L46", "L48"} \/ loc[t].inSub}
QueueBudget(mq) == nextq + Cardinality(InSubscribe) <= mq
PubBudget(mp) == npub["t1"] + npub["t2"] < mp

\* ------------------------------------------------ PubSubWithQueue.subscribe
\* The call, line 42-43 (return None) and line 44: if topic not in self.sub_list
Subscribe(t, name, topic) ==
    /\ pc[t] = "idle"
    /\ IF name = "" \/ topic = UNKNOWN
       THEN Return(t)
       ELSE /\ Goto(t, IF topic \in DOMAIN sub_list THEN "L46" ELSE "L45")
            /\ loc' = [loc EXCEPT ![t] = [NoLoc EXCEPT !.name = name, !.topic = topic]]
    /\ UNCHANGED <<sub_list, queues, nextq, npub, wpc, whand, received, retired>>
    /\ UNCHANGED outsideReg

\* line 45: self.sub_list[topic] = {}
Sub45(t) ==
    /\ pc[t] = "L45"
    /\ sub_list' = (loc[t].topic :> <<>>) @@ sub_list
    /\ Goto(t, "L46")
    /\ UNCHANGED <<queues, nextq, loc, npub, wpc, whand, received, retired>>
    /\ UNCHANGED outsideReg

\* line 46-47: if name in self.sub_list[topic]: self.unsubscribe(name, topic)
Sub46(t) ==
    /\ pc[t] = "L46"
    /\ IF loc[t].topic \notin DOMAIN sub_list
       THEN Raise(t)
       ELSE IF DictHas(sub_list[loc[t].topic], loc[t].name)
            THEN /\ Goto(t, "L53")
                 /\ loc' = [loc EXCEPT ![t].inSub = TRUE]
            ELSE /\ Goto(t, "L48")
                 /\ UNCHANGED loc
    /\ UNCHANGED <<sub_list, queues, nextq, npub, wpc, whand, received, retired>>
    /\ UNCHANGED outsideReg

\* line 48-50: q = queue.Queue(); self.sub_list[topic][name] = q; return q.
\* The caller (TestSubscriber.subscribe_topics, line 330-336) starts the
\* worker of the returned queue.
Sub48Reinstall(t) ==
    /\ pc[t] = "L48"
    /\ IF loc[t].topic \notin DOMAIN sub_list
       THEN /\ Raise(t)
            /\ UNCHANGED <<sub_list, nextq, wpc, retired>>
       ELSE /\ sub_list' = [sub_list EXCEPT ![loc[t].topic] =
                                DictSet(@, loc[t].name, IF loc[t].old # 0 THEN loc[t].old ELSE nextq)]
            /\ nextq' = nextq + 1
            /\ wpc' = [wpc EXCEPT ![nextq] = "get"]
            /\ retired' = IF loc[t].old # 0 THEN retired \cup {<<loc[t].old, nextq>>} ELSE retired
            /\ Return(t)
    /\ UNCHANGED <<queues, npub, whand, received>>
    /\ UNCHANGED outsideReg

Sub48(t) ==
    /\ pc[t] = "L48"
    /\ IF loc[t].topic \notin DOMAIN sub_list
       THEN /\ Raise(t)
            /\ UNCHANGED <<sub_list, nextq, wpc, retired>>
       ELSE /\ sub_list' = [sub_list EXCEPT ![loc[t].topic] = DictSet(@, loc[t].name, nextq)]
            /\ nextq' = nextq + 1
            /\ wpc' = [wpc EXCEPT ![nextq] = "get"]
            /\ retired' = IF loc[t].old # 0 THEN retired \cup {<<loc[t].old, nextq>>} ELSE retired
            /\ Return(t)
    /\ UNCHANGED <<queues, npub, whand, received>>
    /\ UNCHANGED outsideReg

\* ---------------------------------------------- PubSubWithQueue.unsubscribe
\* The call and line 53: if topic in self.sub_list and name in self.sub_list[topic]
Unsubscribe(t, name, topic) ==
    /\ pc[t] = "idle"
    /\ IF topic \in DOMAIN sub_list /\ DictHas(sub_list[topic], name)
       THEN /\ Goto(t, "L54")
            /\ loc' = [loc EXCEPT ![t] = [NoLoc EXCEPT !.name = name, !.topic = topic]]
       ELSE Return(t)
    /\ UNCHANGED <<sub_list, queues, nextq, npub, wpc, whand, received, retired>>
    /\ UNCHANGED outsideReg

\* unsubscribe returns: to subscribe line 48 when called from line 47
UnsubReturn(t) ==
    IF loc[t].inSub
    THEN /\ Goto(t, "L48")
         /\ UNCHANGED loc
    ELSE Return(t)

\* line 53, reached from line 47
Unsub53(t) ==
    /\ pc[t] = "L53"
    /\ IF loc[t].topic \in DOMAIN sub_list /\ DictHas(sub_list[loc[t].topic], loc[t].name)
       THEN /\ Goto(t, "L54")
            /\ UNCHANGED loc
       ELSE UnsubReturn(t)
    /\ UNCHANGED <<sub_list, queues, nextq, npub, wpc, whand, received, retired>>
    /\ UNCHANGED outsideReg

\* line 54: self.sub_list[topic][name].put(None)
Unsub54(t) ==
    /\ pc[t] = "L54"
    /\ IF loc[t].topic \in DOMAIN sub_list /\ DictHas(sub_list[loc[t].topic], loc[t].name)
       THEN LET q == DictGet(sub_list[loc[t].topic], loc[t].name)
            IN /\ ~QFull(queues[q])
               /\ queues' = [queues EXCEPT ![q] = QPut(@, None)]
               /\ Goto(t, "L55")
               /\ loc' = [loc EXCEPT ![t].old = q]
       ELSE /\ Raise(t)
            /\ UNCHANGED queues
    /\ UNCHANGED <<sub_list, nextq, npub, wpc, whand, received, retired>>
    /\ UNCHANGED outsideReg

\* line 55: del self.sub_list[topic][name]
Unsub55KeepsMapping(t) ==
    /\ pc[t] = "L55"
    /\ IF loc[t].topic \in DOMAIN sub_list /\ DictHas(sub_list[loc[t].topic], loc[t].name)
       THEN /\ UNCHANGED sub_list
            /\ Goto(t, "L56")
            /\ UNCHANGED loc
       ELSE /\ Raise(t)
            /\ UNCHANGED sub_list
    /\ UNCHANGED <<queues, nextq, npub, wpc, whand, received, retired>>
    /\ UNCHANGED outsideReg

Unsub55(t) ==
    /\ pc[t] = "L55"
    /\ IF loc[t].topic \in DOMAIN sub_list /\ DictHas(sub_list[loc[t].topic], loc[t].name)
       THEN /\ sub_list' = [sub_list EXCEPT ![loc[t].topic] = DictDel(@, loc[t].name)]
            /\ Goto(t, "L56")
            /\ UNCHANGED loc
       ELSE /\ Raise(t)
            /\ UNCHANGED sub_list
    /\ UNCHANGED <<queues, nextq, npub, wpc, whand, received, retired>>
    /\ UNCHANGED outsideReg

\* line 56: if not self.sub_list[topic]
Unsub56(t) ==
    /\ pc[t] = "L56"
    /\ IF loc[t].topic \notin DOMAIN sub_list
       THEN Raise(t)
       ELSE IF sub_list[loc[t].topic] = <<>>
            THEN /\ Goto(t, "L57")
                 /\ UNCHANGED loc
            ELSE UnsubReturn(t)
    /\ UNCHANGED <<sub_list, queues, nextq, npub, wpc, whand, received, retired>>
    /\ UNCHANGED outsideReg

\* line 57: del self.sub_list[topic]
Unsub57(t) ==
    /\ pc[t] = "L57"
    /\ IF loc[t].topic \notin DOMAIN sub_list
       THEN /\ Raise(t)
            /\ UNCHANGED sub_list
       ELSE /\ sub_list' = [x \in DOMAIN sub_list \ {loc[t].topic} |-> sub_list[x]]
            /\ UnsubReturn(t)
    /\ UNCHANGED <<queues, nextq, npub, wpc, whand, received, retired>>
    /\ UNCHANGED outsideReg

\* ------------------------------------------------- PubSubWithQueue.publish
\* The caller builds the message (a PubSubMessage, identified here by its
\* producer and the producer's count) or passes None.
\* line 60: if topic in self.sub_list and message
PublishNoMessageCheck(t, topic, isMsg) ==
    /\ pc[t] = "idle"
    /\ npub' = [npub EXCEPT ![t] = IF isMsg THEN @ + 1 ELSE @]
    /\ IF topic \in DOMAIN sub_list
       THEN /\ Goto(t, "L61")
            /\ loc' = [loc EXCEPT ![t] = [NoLoc EXCEPT !.topic = topic,
                                                       !.msg = IF isMsg THEN <<t, npub[t] + 1>> ELSE None]]
       ELSE Return(t)
    /\ UNCHANGED <<sub_list, queues, nextq, wpc, whand, received, retired>>
    /\ UNCHANGED outsideReg

Publish(t, topic, isMsg) ==
    /\ pc[t] = "idle"
    /\ npub' = [npub EXCEPT ![t] = IF isMsg THEN @ + 1 ELSE @]
    /\ IF topic \in DOMAIN sub_list /\ isMsg
       THEN /\ Goto(t, "L61")
            /\ loc' = [loc EXCEPT ![t] = [NoLoc EXCEPT !.topic = topic,
                                                       !.msg = <<t, npub[t] + 1>>]]
       ELSE Return(t)
    /\ UNCHANGED <<sub_list, queues, nextq, wpc, whand, received, retired>>
    /\ UNCHANGED outsideReg

\* line 61: for q in list(self.sub_list[topic].values())
Pub61(t) ==
    /\ pc[t] = "L61"
    /\ IF loc[t].topic \notin DOMAIN sub_list
       THEN Raise(t)
       ELSE /\ loc' = [loc EXCEPT ![t].snap = DictValues(sub_list[loc[t].topic]), ![t].i = 1]
            /\ Goto(t, "L62")
    /\ UNCHANGED <<sub_list, queues, nextq, npub, wpc, whand, received, retired>>
    /\ UNCHANGED outsideReg

\* line 62: q.put(message), once per element of the snapshot
Pub62(t) ==
    /\ pc[t] = "L62"
    /\ IF loc[t].i > Len(loc[t].snap)
       THEN /\ Return(t)
            /\ UNCHANGED queues
       ELSE /\ ~QFull(queues[loc[t].snap[loc[t].i]])
            /\ queues' = [queues EXCEPT ![loc[t].snap[loc[t].i]] = QPut(@, loc[t].msg)]
            /\ loc' = [loc EXCEPT ![t].i = @ + 1]
            /\ UNCHANGED pc
    /\ UNCHANGED <<sub_list, nextq, npub, wpc, whand, received, retired>>
    /\ UNCHANGED outsideReg

\* ------------------------------------------- TestSubscriber._listen_queue
\* line 340-342: msg = q.get(); if msg is None: break
WorkerGetIgnoresNone(q) ==
    /\ wpc[q] = "get"
    /\ queues[q] # <<>>
    /\ queues' = [queues EXCEPT ![q] = Tail(@)]
    /\ IF Head(queues[q]) = None
       THEN UNCHANGED <<wpc, whand>>
       ELSE /\ wpc' = [wpc EXCEPT ![q] = "handle"]
            /\ whand' = [whand EXCEPT ![q] = Head(queues[q])]
    /\ UNCHANGED <<sub_list, nextq, pc, loc, npub, received, retired>>
    /\ UNCHANGED outsideReg

WorkerGet(q) ==
    /\ wpc[q] = "get"
    /\ queues[q] # <<>>
    /\ queues' = [queues EXCEPT ![q] = Tail(@)]
    /\ IF Head(queues[q]) = None
       THEN /\ wpc' = [wpc EXCEPT ![q] = "done"]
            /\ UNCHANGED whand
       ELSE /\ wpc' = [wpc EXCEPT ![q] = "handle"]
            /\ whand' = [whand EXCEPT ![q] = Head(queues[q])]
    /\ UNCHANGED <<sub_list, nextq, pc, loc, npub, received, retired>>
    /\ UNCHANGED outsideReg

\* line 343-346: the handler part of the loop body
WorkerHandle(q) ==
    /\ wpc[q] = "handle"
    /\ received' = [received EXCEPT ![q] = Append(@, whand[q])]
    /\ whand' = [whand EXCEPT ![q] = None]
    /\ wpc' = [wpc EXCEPT ![q] = "get"]
    /\ UNCHANGED <<sub_list, queues, nextq, pc, loc, npub, retired>>
    /\ UNCHANGED outsideReg

\* ------------------------------------------------------ CommunicationQueue
MaxCap == 2         \* largest maxsize a CommunicationQueue is built with
MaxMsgs == 4        \* Message objects built
MaxHooks == 2       \* callbacks registered for one message type

MsgTypes == {"a", "b"}
\* Callbacks: one that returns and one that raises an Exception.
Hooks == {"hook_ok", "hook_raise"}
HookRaises(h) == h = "hook_raise"
DefaultMaxsize == 1000

\* An Optional value is a sequence of at most one element: <<>> is None.
NoneOpt == <<>>
Some(x) == <<x>>

\* Outcome of a call: what it returned or raised, and the Message it was
\* called with (put) or returned (get).
NoMsg == [type |-> "", id |-> 0]
Out(kind, m) == [kind |-> kind, msg |-> m]

\* line 59: set(message_types) if message_types else None
AllowList(message_types) ==
    IF message_types = NoneOpt \/ message_types[1] = <<>>
    THEN NoneOpt
    ELSE Some({message_types[1][i] : i \in 1..Len(message_types[1])})

\* line 52-64: __init__
CQInit(maxsize, message_types) ==
    /\ cq_maxsize = maxsize
    /\ cq_types = AllowList(message_types)
    /\ cq_inner = <<>>
    /\ cq_dropped = 0
    /\ cq_hooks = <<>>
    /\ cq_calls = <<>>
    /\ cq_seen = <<>>
    /\ cq_out = Out("none", NoMsg)
    /\ cq_refused = {}
    /\ cq_nmsg = 0

\* line 100: self._message_types and message.type not in self._message_types
RejectedNever(type) == FALSE
Rejected(type) == cq_types # NoneOpt /\ cq_types[1] # {} /\ type \notin cq_types[1]

\* queue.Queue.put raises Full: maxsize > 0 and qsize() >= maxsize
InnerFullOffByOne == cq_maxsize > 0 /\ Len(cq_inner) > cq_maxsize
InnerFull == cq_maxsize > 0 /\ Len(cq_inner) >= cq_maxsize

\* line 108-109: if message.type in self._hooks: for hook in self._hooks[message.type]
HooksFor(type) == IF type \in DOMAIN cq_hooks THEN cq_hooks[type] ELSE <<>>

\* line 109-113: every callback is called inside its own try; an Exception it
\* raises is caught and printed, and the loop goes on with the next callback.
\* calls: the callbacks invoked, in order; raised: an exception left the loop.
RECURSIVE HookLoopNoTry(_)
HookLoopNoTry(hs) ==
    IF hs = <<>>
    THEN [calls |-> <<>>, raised |-> FALSE]
    ELSE IF HookRaises(Head(hs))
         THEN [calls |-> <<Head(hs)>>, raised |-> TRUE]
         ELSE LET rest == HookLoopNoTry(Tail(hs))
              IN [calls |-> <<Head(hs)>> \o rest.calls, raised |-> rest.raised]

RECURSIVE HookLoop(_)
HookLoop(hs) ==
    IF hs = <<>>
    THEN [calls |-> <<>>, raised |-> FALSE]
    ELSE LET rest == HookLoop(Tail(hs))
         IN [calls |-> <<Head(hs)>> \o rest.calls, raised |-> rest.raised]

\* line 81-85: register_hook
RegisterHook(type, h) ==
    /\ Len(HooksFor(type)) < MaxHooks
    /\ cq_hooks' = (type :> Append(HooksFor(type), h)) @@ cq_hooks
    /\ cq_out' = Out("none", NoMsg)
    /\ UNCHANGED <<cq_maxsize, cq_types, cq_inner, cq_dropped, cq_calls, cq_seen, cq_refused, cq_nmsg>>
    /\ UNCHANGED outsideCQ

\* line 87-122: put(message, block, timeout).  A blocking put without timeout
\* on a full queue waits for a consumer: it is not enabled while the queue is
\* full; with a timeout it gives up as queue.Full when the time has passed.
\* The hooks are called after the message is in the queue (line 105, 108-113).
DoPutHooksFirst(message, block, hasTimeout) ==
    /\ IF Rejected(message.type)
       THEN /\ cq_out' = Out("ValueError", message)
            /\ cq_calls' = <<>>
            /\ cq_seen' = <<>>
            /\ cq_refused' = cq_refused \cup {message.id}
            /\ UNCHANGED <<cq_inner, cq_dropped>>
       ELSE IF InnerFull
            THEN /\ ~block \/ hasTimeout
                 /\ cq_dropped' = cq_dropped + 1
                 /\ cq_out' = Out("False", message)
                 /\ cq_calls' = HookLoop(HooksFor(message.type)).calls
                 /\ cq_seen' = [i \in 1..Len(cq_calls') |-> message \in {cq_inner[j] : j \in 1..Len(cq_inner)}]
                 /\ cq_refused' = cq_refused \cup {message.id}
                 /\ UNCHANGED cq_inner
            ELSE LET r == HookLoop(HooksFor(message.type))
                 IN /\ cq_inner' = Append(cq_inner, message)
                    /\ cq_calls' = r.calls
                    /\ cq_seen' = [i \in 1..Len(r.calls) |-> message \in {cq_inner[j] : j \in 1..Len(cq_inner)}]
                    /\ cq_out' = Out(IF r.raised THEN "Exception" ELSE "True", message)
                    /\ UNCHANGED <<cq_dropped, cq_refused>>
    /\ UNCHANGED <<cq_maxsize, cq_types, cq_hooks>>

DoPut(message, block, hasTimeout) ==
    /\ IF Rejected(message.type)
       THEN /\ cq_out' = Out("ValueError", message)
            /\ cq_calls' = <<>>
            /\ cq_seen' = <<>>
            /\ cq_refused' = cq_refused \cup {message.id}
            /\ UNCHANGED <<cq_inner, cq_dropped>>
       ELSE IF InnerFull
            THEN /\ ~block \/ hasTimeout
                 /\ cq_dropped' = cq_dropped + 1
                 /\ cq_out' = Out("False", message)
                 /\ cq_calls' = <<>>
                 /\ cq_seen' = <<>>
                 /\ cq_refused' = cq_refused \cup {message.id}
                 /\ UNCHANGED cq_inner
            ELSE LET r == HookLoop(HooksFor(message.type))
                 IN /\ cq_inner' = Append(cq_inner, message)
                    /\ cq_calls' = r.calls
                    /\ cq_seen' = [i \in 1..Len(r.calls) |-> message \in {cq_inner'[j] : j \in 1..Len(cq_inner')}]
                    /\ cq_out' = Out(IF r.raised THEN "Exception" ELSE "True", message)
                    /\ UNCHANGED <<cq_dropped, cq_refused>>
    /\ UNCHANGED <<cq_maxsize, cq_types, cq_hooks>>

\* A producer builds a Message and puts it.
Put(type, block, hasTimeout) ==
    /\ cq_nmsg < MaxMsgs
    /\ cq_nmsg' = cq_nmsg + 1
    /\ DoPut([type |-> type, id |-> cq_nmsg + 1], block, hasTimeout)
    /\ UNCHANGED outsideCQ

\* line 124-129: get.  A blocking get without timeout on an empty queue waits.
DoGet(block, hasTimeout) ==
    /\ IF cq_inner = <<>>
       THEN /\ ~block \/ hasTimeout
            /\ cq_out' = Out("None", NoMsg)
            /\ UNCHANGED cq_inner
       ELSE /\ cq_out' = Out("Message", Head(cq_inner))
            /\ cq_inner' = Tail(cq_inner)
    /\ cq_calls' = <<>>
    /\ cq_seen' = <<>>
    /\ UNCHANGED <<cq_maxsize, cq_types, cq_dropped, cq_hooks, cq_refused, cq_nmsg>>

Get(block, hasTimeout) ==
    /\ DoGet(block, hasTimeout)
    /\ UNCHANGED outsideCQ

\* ---------------------------------------------- CommunicationQueue.get_by_type
MaxGbtCap == 1      \* largest maxsize of the queue get_by_type is called on
MaxGbtMsgs == 4     \* Message objects built for that queue
MaxGbtRaceMsgs == 3 \* Message objects built by producers that run during get_by_type

NoGbt == [pc |-> "idle", type |-> "", block |-> FALSE, hasTimeout |-> FALSE,
          msg |-> NoMsg, at |-> <<>>]

GbtInit ==
    /\ gbt = NoGbt
    /\ gbt_out = Out("none", NoMsg)

\* The call and line 133.  at: the queue as the call found it.
GetByType(message_type, block, hasTimeout) ==
    /\ gbt.pc = "idle"
    /\ gbt' = [pc |-> "L136", type |-> message_type, block |-> block,
               hasTimeout |-> hasTimeout, msg |-> NoMsg, at |-> cq_inner]
    /\ gbt_out' = Out("none", NoMsg)
    /\ UNCHANGED cqvars
    /\ UNCHANGED outsideGbt

\* The call returns; its arguments stay on record until the next call.
GbtReturn(kind, msg) ==
    /\ gbt' = [gbt EXCEPT !.pc = "idle", !.msg = NoMsg, !.at = <<>>]
    /\ gbt_out' = Out(kind, msg)

\* line 136-137: with a timeout, the call returns None once the time is over,
\* which any pass through the loop may find.
Gbt136Timeout ==
    /\ gbt.pc = "L136"
    /\ gbt.hasTimeout
    /\ GbtReturn("None", NoMsg)
    /\ UNCHANGED cqvars
    /\ UNCHANGED outsideGbt

\* line 139-142 and 145-146: msg = self.get(block, 0.1 if block else 0); a
\* message of the type is returned, another one is kept for line 144, and an
\* empty queue ends a non-blocking call and sends a blocking one round again.
Gbt139ReturnsAny ==
    /\ gbt.pc = "L136"
    /\ DoGet(gbt.block, TRUE)
    /\ IF cq_inner = <<>>
       THEN IF gbt.block
            THEN UNCHANGED gbtvars
            ELSE GbtReturn("None", NoMsg)
       ELSE GbtReturn("Message", Head(cq_inner))
    /\ UNCHANGED outsideGbt

Gbt139 ==
    /\ gbt.pc = "L136"
    /\ DoGet(gbt.block, TRUE)
    /\ IF cq_inner = <<>>
       THEN IF gbt.block
            THEN UNCHANGED gbtvars
            ELSE GbtReturn("None", NoMsg)
       ELSE IF Head(cq_inner).type = gbt.type
            THEN GbtReturn("Message", Head(cq_inner))
            ELSE /\ gbt' = [gbt EXCEPT !.pc = "L144", !.msg = Head(cq_inner)]
                 /\ UNCHANGED gbt_out
    /\ UNCHANGED outsideGbt

\* line 144: self.put(msg, block=False)
Gbt144 ==
    /\ gbt.pc = "L144"
    /\ DoPut(gbt.msg, FALSE, FALSE)
    /\ gbt' = [gbt EXCEPT !.pc = "L136", !.msg = NoMsg]
    /\ UNCHANGED <<gbt_out, cq_nmsg>>
    /\ UNCHANGED outsideGbt

\* ------------------------------------------------------------------ Message
MaxTicks == 3       \* values time.time() takes
MaxMade == 2        \* Message objects constructed without a given message_id

\* time.time() is counted in ticks of a third of a microsecond; line 24 formats
\* the timestamp with six decimals, that is rounded to the nearest microsecond.
TicksPerMicro == 3
Fmt6(timestamp) == (2 * timestamp + TicksPerMicro) \div (2 * TicksPerMicro)

\* threading.get_ident(): distinct for threads that are alive together
Ident(t) == IF t = "t1" THEN 1 ELSE 2

\* A Python value of a payload: its type and its content (the code points of
\* a str, the elements of a list, tuple or set, the number of an int).
PyVal(tag, items) == [tag |-> tag, items |-> items]
KeyK == PyVal("str", <<107>>)
\* A payload is a dict, its keys in insertion order.
Payloads ==
    { <<>>,
      << <<KeyK, PyVal("int", <<1>>)>> >>,
      << <<KeyK, PyVal("list", <<1, 2>>)>> >>,
      << <<KeyK, PyVal("tuple", <<1, 2>>)>> >>,
      << <<KeyK, PyVal("set", <<1, 2>>)>> >>,
      << <<PyVal("int", <<1>>), PyVal("str", <<120>>)>> >> }
ConstructTypes == MsgTypes \cup {""}
GivenTimestamps == {NoneOpt, Some(1)}
GivenIds == {NoneOpt, Some(<<0, 0>>)}

NoMessage == [type |-> "", payload |-> <<>>, timestamp |-> 0, message_id |-> <<0, 0>>]
MOut(kind, msg, back) == [kind |-> kind, msg |-> msg, back |-> back]

MsgInit ==
    /\ m_now = 0
    /\ m_made = <<>>
    /\ m_out = MOut("none", NoMessage, NoMessage)

\* line 19-24: __post_init__ of a Message built by thread t at time now; the
\* message_id f"{timestamp:.6f}_{ident}" is the pair of its two parts.
PostInit(t, now, type, payload, timestamp, message_id) ==
    LET ts == IF timestamp = NoneOpt THEN now ELSE timestamp[1]
    IN [type |-> type, payload |-> payload, timestamp |-> ts,
        message_id |-> IF message_id = NoneOpt THEN <<Fmt6(ts), Ident(t)>> ELSE message_id[1]]

\* line 26-33: to_dict
ToDict(m) ==
    [type |-> m.type, payload |-> m.payload, timestamp |-> m.timestamp, message_id |-> m.message_id]

\* json.dumps: an int is a number, a str a string, a list or a tuple an array;
\* a set raises TypeError; a dict key that is an int is written as its digits.
JsonEncodable(v) == v.tag \in {"int", "str", "list", "tuple"}
JsonOf(v) ==
    [tag |-> CASE v.tag = "int" -> "number"
               [] v.tag = "str" -> "string"
               [] OTHER -> "array",
     items |-> v.items]
JsonKey(k) == IF k.tag = "str" THEN k.items ELSE <<48 + k.items[1]>>

\* json.loads: a number is an int, a string a str, an array a list; an object
\* key is a str.
PyOf(j) ==
    [tag |-> CASE j.tag = "number" -> "int"
               [] j.tag = "string" -> "str"
               [] OTHER -> "list",
     items |-> j.items]

\* line 170-173: serialize, json.dumps(message.to_dict()).  The text is the
\* JSON value it denotes; NoneOpt when json.dumps raises TypeError.  A float
\* is written by float.__repr__, which json.loads reads back as the same
\* float, and a str as a string that reads back as the same str.
Serialize(message) ==
    LET d == ToDict(message)
    IN IF \E i \in 1..Len(d.payload) : ~JsonEncodable(d.payload[i][2])
       THEN NoneOpt
       ELSE Some([type |-> d.type,
                  payload |-> [i \in 1..Len(d.payload) |->
                                  <<JsonKey(d.payload[i][1]), JsonOf(d.payload[i][2])>>],
                  timestamp |-> d.timestamp,
                  message_id |-> d.message_id])

\* line 35-43: from_dict, the constructor called with the four fields
FromDict(t, now, data) ==
    PostInit(t, now, data.type, data.payload, Some(data.timestamp), Some(data.message_id))

\* line 175-178: deserialize, Message.from_dict(json.loads(data))
Deserialize(t, now, text) ==
    FromDict(t, now, [type |-> text.type,
                      payload |-> [i \in 1..Len(text.payload) |->
                                      <<PyVal("str", text.payload[i][1]), PyOf(text.payload[i][2])>>],
                      timestamp |-> text.timestamp,
                      message_id |-> text.message_id])

\* time.time() moves on
Tick ==
    /\ m_now < MaxTicks
    /\ m_now' = m_now + 1
    /\ UNCHANGED <<m_made, m_out>>
    /\ UNCHANGED outsideMsg

\* Message(type, payload, timestamp, message_id) called by thread t
Construct(t, type, payload, timestamp, message_id) ==
    LET m == PostInit(t, m_now, type, payload, timestamp, message_id) IN
    /\ message_id = NoneOpt => Len(m_made) < MaxMade
    /\ m_made' = IF message_id = NoneOpt THEN Append(m_made, m.message_id) ELSE m_made
    /\ m_out' = MOut("Message", m, NoMessage)
    /\ UNCHANGED m_now
    /\ UNCHANGED outsideMsg

\* MessageSerializer.deserialize(MessageSerializer.serialize(e)) called by
\* thread t on the Message e constructed last
RoundTrip(t) ==
    /\ m_out.kind = "Message"
    /\ LET text == Serialize(m_out.msg)
       IN m_out' = IF text = NoneOpt
                   THEN MOut("TypeError", m_out.msg, NoMessage)
                   ELSE MOut("Decoded", m_out.msg, Deserialize(t, m_now, text[1]))
    /\ UNCHANGED <<m_now, m_made>>
    /\ UNCHANGED outsideMsg

\* ------------------------------------------- pubsub_module.PubSubWithQueue
MaxPsQueues == 1    \* queue.Queue objects created by subscribe
MaxPsPub == 2       \* publish calls
MaxPsRaceQueues == 2 \* queue.Queue objects created by subscribe, two threads racing

PsTopics == {"news"}
PsQIds == 1..(IF MaxPsQueues < MaxPsRaceQueues THEN MaxPsRaceQueues ELSE MaxPsQueues)
\* consumer callbacks: one that returns and one that raises an Exception
Callbacks == {"cb_ok", "cb_raise"}
CallbackRaises(cb) == cb = "cb_raise"

PsNoLoc == [topic |-> "", cb |-> "", sub_id |-> 0, q |-> 0, tmp |-> 0,
            msg |-> None, snap |-> <<>>, i |-> 0, raised |-> FALSE]

\* line 5-7: __init__
PsInit ==
    /\ ps_topics = <<>>
    /\ ps_next = 1
    /\ ps_queues = [q \in PsQIds |-> <<>>]
    /\ ps_nextq = 1
    /\ ps_pc = [t \in Threads |-> "idle"]
    /\ ps_loc = [t \in Threads |-> PsNoLoc]
    /\ ps_npub = 0
    /\ ps_handles = {}
    /\ ps_wpc = [q \in PsQIds |-> "none"]
    /\ ps_cb = [q \in PsQIds |-> ""]
    /\ ps_whand = [q \in PsQIds |-> None]
    /\ ps_handled = [q \in PsQIds |-> <<>>]

PsReturn(t) ==
    /\ ps_pc' = [ps_pc EXCEPT ![t] = "idle"]
    /\ ps_loc' = [ps_loc EXCEPT ![t] = PsNoLoc]

PsRaise(t) ==
    /\ ps_pc' = [ps_pc EXCEPT ![t] = "idle"]
    /\ ps_loc' = [ps_loc EXCEPT ![t] = [PsNoLoc EXCEPT !.raised = TRUE]]

PsGoto(t, l) == ps_pc' = [ps_pc EXCEPT ![t] = l]

\* Room for one more queue.Queue within the bound, the subscribe calls in
\* flight counted.
PsQueueBudget(mq) == ps_nextq + Cardinality({u \in Threads : ps_pc[u] \in {"P12", "P15"}}) <= mq

\* subscribe(topic, consumer_callback), line 11: if topic not in self.topics
PsSubscribe(t, topic, cb) ==
    /\ ps_pc[t] = "idle"
    /\ PsGoto(t, IF topic \in DOMAIN ps_topics THEN "P15" ELSE "P12")
    /\ ps_loc' = [ps_loc EXCEPT ![t] = [PsNoLoc EXCEPT !.topic = topic, !.cb = cb]]
    /\ UNCHANGED <<ps_topics, ps_next, ps_queues, ps_nextq, ps_npub, ps_handles,
                   ps_wpc, ps_cb, ps_whand, ps_handled>>
    /\ UNCHANGED outsidePs

\* line 12: self.topics[topic] = {}
Ps12(t) ==
    /\ ps_pc[t] = "P12"
    /\ ps_topics' = (ps_loc[t].topic :> <<>>) @@ ps_topics
    /\ PsGoto(t, "P15")
    /\ UNCHANGED <<ps_next, ps_queues, ps_nextq, ps_loc, ps_npub, ps_handles,
                   ps_wpc, ps_cb, ps_whand, ps_handled>>
    /\ UNCHANGED outsidePs

\* line 15-16: q = queue.Queue(); sub_id = self.next_sub_id
Ps15(t) ==
    /\ ps_pc[t] = "P15"
    /\ ps_loc' = [ps_loc EXCEPT ![t].q = ps_nextq, ![t].sub_id = ps_next]
    /\ ps_nextq' = ps_nextq + 1
    /\ PsGoto(t, "P17")
    /\ UNCHANGED <<ps_topics, ps_next, ps_queues, ps_npub, ps_handles,
                   ps_wpc, ps_cb, ps_whand, ps_handled>>
    /\ UNCHANGED outsidePs

\* line 17: self.topics[topic][sub_id] = q
Ps17(t) ==
    /\ ps_pc[t] = "P17"
    /\ IF ps_loc[t].topic \notin DOMAIN ps_topics
       THEN /\ PsRaise(t)
            /\ UNCHANGED ps_topics
       ELSE /\ ps_topics' = [ps_topics EXCEPT ![ps_loc[t].topic] =
                                DictSet(@, ps_loc[t].sub_id, ps_loc[t].q)]
            /\ PsGoto(t, "P18")
            /\ UNCHANGED ps_loc
    /\ UNCHANGED <<ps_next, ps_queues, ps_nextq, ps_npub, ps_handles,
                   ps_wpc, ps_cb, ps_whand, ps_handled>>
    /\ UNCHANGED outsidePs

\* line 18: self.next_sub_id += 1, the read of the attribute
Ps18(t) ==
    /\ ps_pc[t] = "P18"
    /\ ps_loc' = [ps_loc EXCEPT ![t].tmp = ps_next]
    /\ PsGoto(t, "P18w")
    /\ UNCHANGED <<ps_topics, ps_next, ps_queues, ps_nextq, ps_npub, ps_handles,
                   ps_wpc, ps_cb, ps_whand, ps_handled>>
    /\ UNCHANGED outsidePs

\* line 18: the store of the incremented value
Ps18w(t) ==
    /\ ps_pc[t] = "P18w"
    /\ ps_next' = ps_loc[t].tmp + 1
    /\ PsGoto(t, "P29")
    /\ UNCHANGED <<ps_topics, ps_queues, ps_nextq, ps_loc, ps_npub, ps_handles,
                   ps_wpc, ps_cb, ps_whand, ps_handled>>
    /\ UNCHANGED outsidePs

\* line 29-30: the consumer thread is started and (sub_id, q) returned
Ps29(t) ==
    /\ ps_pc[t] = "P29"
    /\ ps_wpc' = [ps_wpc EXCEPT ![ps_loc[t].q] = "get"]
    /\ ps_cb' = [ps_cb EXCEPT ![ps_loc[t].q] = ps_loc[t].cb]
    /\ ps_handles' = ps_handles \cup {<<ps_loc[t].topic, ps_loc[t].sub_id, ps_loc[t].q>>}
    /\ PsReturn(t)
    /\ UNCHANGED <<ps_topics, ps_next, ps_queues, ps_nextq, ps_npub, ps_whand, ps_handled>>
    /\ UNCHANGED outsidePs

\* unsubscribe(topic, sub_id, q) with a handle subscribe returned,
\* line 34: if topic in self.topics and sub_id in self.topics[topic]
PsUnsubscribe(t, h) ==
    /\ ps_pc[t] = "idle"
    /\ h \in ps_handles
    /\ IF h[1] \in DOMAIN ps_topics /\ DictHas(ps_topics[h[1]], h[2])
       THEN /\ PsGoto(t, "P35")
            /\ ps_loc' = [ps_loc EXCEPT ![t] = [PsNoLoc EXCEPT !.topic = h[1], !.sub_id = h[2], !.q = h[3]]]
       ELSE PsReturn(t)
    /\ UNCHANGED <<ps_topics, ps_next, ps_queues, ps_nextq, ps_npub, ps_handles,
                   ps_wpc, ps_cb, ps_whand, ps_handled>>
    /\ UNCHANGED outsidePs

\* line 35: q.put(None)
Ps35(t) ==
    /\ ps_pc[t] = "P35"
    /\ ps_queues' = [ps_queues EXCEPT ![ps_loc[t].q] = QPut(@, None)]
    /\ PsGoto(t, "P36")
    /\ UNCHANGED <<ps_topics, ps_next, ps_nextq, ps_loc, ps_npub, ps_handles,
                   ps_wpc, ps_cb, ps_whand, ps_handled>>
    /\ UNCHANGED outsidePs

\* line 36: del self.topics[topic][sub_id]
Ps36(t) ==
    /\ ps_pc[t] = "P36"
    /\ IF ps_loc[t].topic \in DOMAIN ps_topics /\ DictHas(ps_topics[ps_loc[t].topic], ps_loc[t].sub_id)
       THEN /\ ps_topics' = [ps_topics EXCEPT ![ps_loc[t].topic] = DictDel(@, ps_loc[t].sub_id)]
            /\ PsGoto(t, "P37")
            /\ UNCHANGED ps_loc
       ELSE /\ PsRaise(t)
            /\ UNCHANGED ps_topics
    /\ UNCHANGED <<ps_next, ps_queues, ps_nextq, ps_npub, ps_handles,
                   ps_wpc, ps_cb, ps_whand, ps_handled>>
    /\ UNCHANGED outsidePs

\* line 37: if not self.topics[topic]
Ps37(t) ==
    /\ ps_pc[t] = "P37"
    /\ IF ps_loc[t].topic \notin DOMAIN ps_topics
       THEN PsRaise(t)
       ELSE IF ps_topics[ps_loc[t].topic] = <<>>
            THEN /\ PsGoto(t, "P38")
                 /\ UNCHANGED ps_loc
            ELSE PsReturn(t)
    /\ UNCHANGED <<ps_topics, ps_next, ps_queues, ps_nextq, ps_npub, ps_handles,
                   ps_wpc, ps_cb, ps_whand, ps_handled>>
    /\ UNCHANGED outsidePs

\* line 38: del self.topics[topic]
Ps38(t) ==
    /\ ps_pc[t] = "P38"
    /\ IF ps_loc[t].topic \notin DOMAIN ps_topics
       THEN /\ PsRaise(t)
            /\ UNCHANGED ps_topics
       ELSE /\ ps_topics' = [x \in DOMAIN ps_topics \ {ps_loc[t].topic} |-> ps_topics[x]]
            /\ PsReturn(t)
    /\ UNCHANGED <<ps_next, ps_queues, ps_nextq, ps_npub, ps_handles,
                   ps_wpc, ps_cb, ps_whand, ps_handled>>
    /\ UNCHANGED outsidePs

\* publish(topic, message), message an object or None,
\* line 41: if topic in self.topics
PsPublish(t, topic, isMsg) ==
    /\ ps_pc[t] = "idle"
    /\ ps_npub < MaxPsPub
    /\ ps_npub' = ps_npub + 1
    /\ IF topic \in DOMAIN ps_topics
       THEN /\ PsGoto(t, "P42")
            /\ ps_loc' = [ps_loc EXCEPT ![t] = [PsNoLoc EXCEPT !.topic = topic,
                              !.msg = IF isMsg THEN <<t, ps_npub + 1>> ELSE None]]
       ELSE PsReturn(t)
    /\ UNCHANGED <<ps_topics, ps_next, ps_queues, ps_nextq, ps_handles,
                   ps_wpc, ps_cb, ps_whand, ps_handled>>
    /\ UNCHANGED outsidePs

\* line 42: for q in list(self.topics[topic].values())
Ps42(t) ==
    /\ ps_pc[t] = "P42"
    /\ IF ps_loc[t].topic \notin DOMAIN ps_topics
       THEN PsRaise(t)
       ELSE /\ ps_loc' = [ps_loc EXCEPT ![t].snap = DictValues(ps_topics[ps_loc[t].topic]), ![t].i = 1]
            /\ PsGoto(t, "P43")
    /\ UNCHANGED <<ps_topics, ps_next, ps_queues, ps_nextq, ps_npub, ps_handles,
                   ps_wpc, ps_cb, ps_whand, ps_handled>>
    /\ UNCHANGED outsidePs

\* line 43: q.put(message), once per element of the snapshot
Ps43(t) ==
    /\ ps_pc[t] = "P43"
    /\ IF ps_loc[t].i > Len(ps_loc[t].snap)
       THEN /\ PsReturn(t)
            /\ UNCHANGED ps_queues
       ELSE /\ ps_queues' = [ps_queues EXCEPT ![ps_loc[t].snap[ps_loc[t].i]] = QPut(@, ps_loc[t].msg)]
            /\ ps_loc' = [ps_loc EXCEPT ![t].i = @ + 1]
            /\ UNCHANGED ps_pc
    /\ UNCHANGED <<ps_topics, ps_next, ps_nextq, ps_npub, ps_handles,
                   ps_wpc, ps_cb, ps_whand, ps_handled>>
    /\ UNCHANGED outsidePs

\* consumer, line 23-25: msg = q.get(); if msg is None: break
PsWorkerGetHandsNoneOn(q) ==
    /\ ps_wpc[q] = "get"
    /\ ps_queues[q] # <<>>
    /\ ps_queues' = [ps_queues EXCEPT ![q] = Tail(@)]
    /\ ps_wpc' = [ps_wpc EXCEPT ![q] = "callback"]
    /\ ps_whand' = [ps_whand EXCEPT ![q] = Head(ps_queues[q])]
    /\ UNCHANGED <<ps_topics, ps_next, ps_nextq, ps_pc, ps_loc, ps_npub, ps_handles,
                   ps_cb, ps_handled>>
    /\ UNCHANGED outsidePs

PsWorkerGet(q) ==
    /\ ps_wpc[q] = "get"
    /\ ps_queues[q] # <<>>
    /\ ps_queues' = [ps_queues EXCEPT ![q] = Tail(@)]
    /\ IF Head(ps_queues[q]) = None
       THEN /\ ps_wpc' = [ps_wpc EXCEPT ![q] = "done"]
            /\ UNCHANGED ps_whand
       ELSE /\ ps_wpc' = [ps_wpc EXCEPT ![q] = "callback"]
            /\ ps_whand' = [ps_whand EXCEPT ![q] = Head(ps_queues[q])]
    /\ UNCHANGED <<ps_topics, ps_next, ps_nextq, ps_pc, ps_loc, ps_npub, ps_handles,
                   ps_cb, ps_handled>>
    /\ UNCHANGED outsidePs

\* consumer, line 26-27: consumer_callback(msg); q.task_done().  Nothing in
\* consumer catches an exception of the callback: it ends the thread ("dead").
PsWorkerCallback(q) ==
    /\ ps_wpc[q] = "callback"
    /\ ps_handled' = [ps_handled EXCEPT ![q] = Append(@, ps_whand[q])]
    /\ ps_whand' = [ps_whand EXCEPT ![q] = None]
    /\ ps_wpc' = [ps_wpc EXCEPT ![q] = IF CallbackRaises(ps_cb[q]) THEN "dead" ELSE "get"]
    /\ UNCHANGED <<ps_topics, ps_next, ps_queues, ps_nextq, ps_pc, ps_loc, ps_npub, ps_handles, ps_cb>>
    /\ UNCHANGED outsidePs

\* Calls of the threads in T on the pubsub_module registry and its consumers.
PsCalls(T) ==
    \/ \E t \in T, topic \in PsTopics, cb \in Callbacks :
            PsQueueBudget(MaxPsQueues) /\ PsSubscribe(t, topic, cb)
    \/ \E t \in T : Ps12(t)
    \/ \E t \in T : Ps15(t)
    \/ \E t \in T : Ps17(t)
    \/ \E t \in T : Ps18(t)
    \/ \E t \in T : Ps18w(t)
    \/ \E t \in T : Ps29(t)
    \/ \E t \in T, h \in ps_handles : PsUnsubscribe(t, h)
    \/ \E t \in T : Ps35(t)
    \/ \E t \in T : Ps36(t)
    \/ \E t \in T : Ps37(t)
    \/ \E t \in T : Ps38(t)
    \/ \E t \in T, topic \in PsTopics, isMsg \in BOOLEAN : PsPublish(t, topic, isMsg)
    \/ \E t \in T : Ps42(t)
    \/ \E t \in T : Ps43(t)

PsWorkers ==
    \/ \E q \in PsQIds : PsWorkerGet(q)
    \/ \E q \in PsQIds : PsWorkerCallback(q)

\* Calls of the threads in T, within the bounds mq and mp, and the workers.
Calls(T, mq, mp) ==
    \/ \E t \in T, name \in Names, topic \in Topics :
            QueueBudget(mq) /\ Subscribe(t, name, topic)
    \/ \E t \in T : Sub45(t)
    \/ \E t \in T : Sub46(t)
    \/ \E t \in T : Sub48(t)
    \/ \E t \in T, name \in Names, topic \in Topics : Unsubscribe(t, name, topic)
    \/ \E t \in T : Unsub53(t)
    \/ \E t \in T : Unsub54(t)
    \/ \E t \in T : Unsub55(t)
    \/ \E t \in T : Unsub56(t)
    \/ \E t \in T : Unsub57(t)
    \/ \E t \in T, topic \in Topics, isMsg \in BOOLEAN :
            (isMsg => PubBudget(mp)) /\ Publish(t, topic, isMsg)
    \/ \E t \in T : Pub61(t)
    \/ \E t \in T : Pub62(t)

Workers ==
    \/ \E q \in QIds : WorkerGet(q)
    \/ \E q \in QIds : WorkerHandle(q)

\* ------------------------------------------------------------ EventManager
\* line 146-161: the handler tables, each entry with the topic its on_* method
\* publishes to (line 237-302)
On(name, topic) == [on |-> name, topic |-> topic]
UiMsgHandlers ==
    ("start_selected_task" :> On("on_start_selected_task", "SELECTED_TASK_START")) @@
    ("stop_selected_task" :> On("on_stop_selected_task", "SELECTED_TASK_STOP")) @@
    ("start_auto_task" :> On("on_start_auto_task", "AUTO_TASK_START")) @@
    ("start_advanced_auto_task" :> On("on_start_advanced_auto_task", "ADVANCE_AUTO_TASK_START")) @@
    ("resize_windows" :> On("on_resize_windows", "RESIZE_WINDOW")) @@
    ("close_windows" :> On("on_close_windows", "CLOSE_WINDOW")) @@
    ("auto_login" :> On("on_auto_login", "AUTO_LOGIN"))
TaskMsgHandlersLoop ==
    ("task_started" :> On("on_task_started", "FROM_TASK")) @@
    ("task_finished" :> On("on_task_finished", "TASK_PROCESS_UPDATE")) @@
    ("task_process" :> On("on_task_process", "TASK_PROCESS_UPDATE")) @@
    ("window_status" :> On("on_window_status", "WINDOW_STATUS"))
TaskMsgHandlers ==
    ("task_started" :> On("on_task_started", "TASK_PROCESS_UPDATE")) @@
    ("task_finished" :> On("on_task_finished", "TASK_PROCESS_UPDATE")) @@
    ("task_process" :> On("on_task_process", "TASK_PROCESS_UPDATE")) @@
    ("window_status" :> On("on_window_status", "WINDOW_STATUS"))
\* line 174-178: register_topic_handlers
TopicHandlersMerged ==
    ("FROM_TASK" :> (TaskMsgHandlers @@ UiMsgHandlers)) @@ ("FROM_UI" :> (UiMsgHandlers @@ TaskMsgHandlers))
TopicHandlers == ("FROM_TASK" :> TaskMsgHandlers) @@ ("FROM_UI" :> UiMsgHandlers)

\* line 180-186: subscribe_to_topics registers the name of the method itself
\* for every topic of the table and keeps the queues
SubName == "subscribe_to_topics"
SubscribedQueues == << <<"FROM_TASK", 1>>, <<"FROM_UI", 2>> >>

\* What the producers publish: the topics and the values of data["type"]
\* ("" standing for a data without the key).
EmPubTopics == {UNKNOWN, "FROM_TASK", "FROM_UI"}
EmTypes == {"task_started", "start_selected_task", "bogus"}
\* line 479-620: every type the send_* methods of the window publish, and one
\* that no table holds
EmRouteTypes == DOMAIN UiMsgHandlers \cup DOMAIN TaskMsgHandlers \cup {"bogus"}
\* line 327-336: a TestSubscriber has registered for a topic the EventManager
\* republishes to, and its worker is started
TestSubName == "Test1"
TestSubQueue == <<"TASK_PROCESS_UPDATE", 3>>

\* line 140-172 and 327-336: the state after EventManager() has been
\* constructed and the TestSubscriber has subscribed: the queues are
\* registered, the processing thread and the subscriber's worker are running.
EmInit ==
    /\ sub_list = ("FROM_TASK" :> << <<SubName, 1>> >>) @@ ("FROM_UI" :> << <<SubName, 2>> >>)
                      @@ (TestSubQueue[1] :> << <<TestSubName, TestSubQueue[2]>> >>)
    /\ queues = [q \in QIds |-> <<>>]
    /\ nextq = 4
    /\ pc = [t \in Callers |-> "idle"]
    /\ loc = [t \in Callers |-> NoLoc]
    /\ npub = [t \in Callers |-> 0]
    /\ wpc = [q \in QIds |-> IF q = TestSubQueue[2] THEN "get" ELSE "none"]
    /\ whand = [q \in QIds |-> None]
    /\ received = [q \in QIds |-> <<>>]
    /\ retired = {}
    /\ em_running = TRUE
    /\ em_i = 1
    /\ em_nh = 0
    /\ em_data = <<>>
    /\ em_called = {}
    /\ em_sentinel = FALSE
    /\ em_cleaned = FALSE
    /\ em_pub = {}

\* The EventManager before it is constructed
EmNone ==
    /\ em_running = FALSE
    /\ em_i = 0
    /\ em_nh = 0
    /\ em_data = <<>>
    /\ em_called = {}
    /\ em_sentinel = FALSE
    /\ em_cleaned = FALSE
    /\ em_pub = {}

\* line 209-212: EventManager.publish of a newly built PubSubMessage (or of
\* None), and line 60 of the registry's publish it calls
EmPublish(t, topic, isMsg, type) ==
    /\ pc[t] = "idle"
    /\ npub' = [npub EXCEPT ![t] = IF isMsg THEN @ + 1 ELSE @]
    /\ em_data' = IF isMsg THEN (<<t, npub[t] + 1>> :> type) @@ em_data ELSE em_data
    /\ IF topic # UNKNOWN /\ isMsg /\ topic \in DOMAIN sub_list
       THEN /\ Goto(t, "L61")
            /\ loc' = [loc EXCEPT ![t] = [NoLoc EXCEPT !.topic = topic,
                                                       !.msg = <<t, npub[t] + 1>>]]
       ELSE Return(t)
    /\ UNCHANGED <<sub_list, queues, nextq, wpc, whand, received, retired>>
    /\ UNCHANGED <<em_running, em_i, em_nh, em_called, em_sentinel, em_cleaned, em_pub>>
    /\ UNCHANGED outsideEm

NextIndex(i) == IF i < Len(SubscribedQueues) THEN i + 1 ELSE 1

\* line 188-207: one pass of process_messages through its loops: the test of
\* _is_running before the first queue, then q.get(block=False) on the queue
\* the for loop is at.  An empty queue lets the for loop go on; None breaks
\* the for loop (and the while loop goes on); a message starts a thread that
\* runs the topic's handler.
RouterStep ==
    /\ em_i # 0
    /\ IF em_i = 1 /\ ~em_running
       THEN /\ em_i' = 0
            /\ UNCHANGED <<queues, pc, loc, em_nh, em_sentinel>>
       ELSE LET topic == SubscribedQueues[em_i][1]
                q == SubscribedQueues[em_i][2]
            IN IF queues[q] = <<>>
               THEN /\ em_i' = NextIndex(em_i)
                    /\ UNCHANGED <<queues, pc, loc, em_nh, em_sentinel>>
               ELSE /\ queues' = [queues EXCEPT ![q] = Tail(@)]
                    /\ IF Head(queues[q]) = None
                       THEN /\ em_i' = 1
                            /\ em_sentinel' = TRUE
                            /\ UNCHANGED <<pc, loc, em_nh>>
                       ELSE /\ em_i' = NextIndex(em_i)
                            /\ UNCHANGED em_sentinel
                            /\ em_nh < Len(HandlerNames)
                            /\ em_nh' = em_nh + 1
                            /\ pc' = [pc EXCEPT ![HandlerNames[em_nh + 1]] = "H214"]
                            /\ loc' = [loc EXCEPT ![HandlerNames[em_nh + 1]] =
                                          [NoLoc EXCEPT !.topic = topic, !.msg = Head(queues[q])]]
    /\ UNCHANGED <<sub_list, nextq, npub, wpc, whand, received, retired>>
    /\ UNCHANGED <<em_running, em_data, em_called, em_cleaned, em_pub>>
    /\ UNCHANGED outsideEm

\* line 214-234 in a handler thread: handle_task_messages or
\* handle_ui_messages looks data["type"] up in the table of the topic; the
\* on_* method found builds a PubSubMessage with the same data and calls the
\* registry's publish (line 237-302, and line 60); without an entry a warning
\* is logged and the thread ends.
HandlerDispatchDefaultsToFirst(h) ==
    LET type == em_data[loc[h].msg]
        table == TopicHandlers[loc[h].topic]
        entry == IF type \in DOMAIN table THEN table[type]
                 ELSE table[CHOOSE k \in DOMAIN table : TRUE]
        message == <<h, npub[h] + 1>>
    IN /\ pc[h] = "H214"
       /\ em_called' = em_called \cup {<<entry.on, loc[h].msg>>}
       /\ em_pub' = em_pub \cup {[topic |-> entry.topic, msg |-> message,
                                  sender |-> "EventManager", data |-> type]}
       /\ npub' = [npub EXCEPT ![h] = @ + 1]
       /\ em_data' = (message :> type) @@ em_data
       /\ IF entry.topic \in DOMAIN sub_list
          THEN /\ Goto(h, "L61")
               /\ loc' = [loc EXCEPT ![h] = [NoLoc EXCEPT !.topic = entry.topic, !.msg = message]]
          ELSE Return(h)
       /\ UNCHANGED <<sub_list, queues, nextq, wpc, whand, received, retired>>
       /\ UNCHANGED <<em_running, em_i, em_nh, em_sentinel, em_cleaned>>
       /\ UNCHANGED outsideEm

HandlerDispatch(h) ==
    LET type == em_data[loc[h].msg]
        table == TopicHandlers[loc[h].topic]
        message == <<h, npub[h] + 1>>
    IN /\ pc[h] = "H214"
       /\ IF type \in DOMAIN table
          THEN /\ em_called' = em_called \cup {<<table[type].on, loc[h].msg>>}
               /\ em_pub' = em_pub \cup {[topic |-> table[type].topic, msg |-> message,
                                          sender |-> "EventManager", data |-> type]}
               /\ npub' = [npub EXCEPT ![h] = @ + 1]
               /\ em_data' = (message :> type) @@ em_data
               /\ IF table[type].topic \in DOMAIN sub_list
                  THEN /\ Goto(h, "L61")
                       /\ loc' = [loc EXCEPT ![h] = [NoLoc EXCEPT !.topic = table[type].topic,
                                                                  !.msg = message]]
                  ELSE Return(h)
          ELSE /\ Return(h)
               /\ UNCHANGED <<npub, em_data, em_called, em_pub>>
       /\ UNCHANGED <<sub_list, queues, nextq, wpc, whand, received, retired>>
       /\ UNCHANGED <<em_running, em_i, em_nh, em_sentinel, em_cleaned>>
       /\ UNCHANGED outsideEm

\* The producers publish through the EventManager, the processing thread and
\* the handler threads it starts run, and the subscriber's worker consumes.
EmNext ==
    \/ \E topic \in EmPubTopics, isMsg \in BOOLEAN, type \in EmTypes :
            (isMsg => npub["t1"] < MaxEmPub) /\ EmPublish("t1", topic, isMsg, type)
    \/ RouterStep
    \/ \E h \in Handlers : HandlerDispatch(h)
    \/ \E t \in Handlers \cup {"t1"} : Pub61(t)
    \/ \E t \in Handlers \cup {"t1"} : Pub62(t)
    \/ Workers

\* The same with every message type.
EmRouteNext ==
    \/ \E topic \in EmPubTopics, isMsg \in BOOLEAN, type \in EmRouteTypes :
            (isMsg => npub["t1"] < MaxRoutePub) /\ EmPublish("t1", topic, isMsg, type)
    \/ RouterStep
    \/ \E h \in Handlers : HandlerDispatch(h)
    \/ \E t \in Handlers \cup {"t1"} : Pub61(t)
    \/ \E t \in Handlers \cup {"t1"} : Pub62(t)
    \/ Workers

\* line 304-315: cleanup, called once.  line 305: self._is_running = False
CleanupName == "event_manager"
Cleanup(t) ==
    /\ pc[t] = "idle" /\ em_running /\ ~em_cleaned
    /\ em_running' = FALSE
    /\ Goto(t, "C307")
    /\ UNCHANGED <<sub_list, queues, nextq, loc, npub, wpc, whand, received, retired>>
    /\ UNCHANGED <<em_i, em_nh, em_data, em_called, em_sentinel, em_cleaned, em_pub>>
    /\ UNCHANGED outsideEm

\* line 306-307: self._processing_thread.join(timeout=1.0) returns when the
\* processing thread has ended or when the second has passed, whichever is
\* first: the thread may still be running.
Cleanup307(t) ==
    /\ pc[t] = "C307"
    /\ Goto(t, "C310")
    /\ loc' = [loc EXCEPT ![t].i = 1]
    /\ UNCHANGED <<sub_list, queues, nextq, npub, wpc, whand, received, retired>>
    /\ UNCHANGED emvars
    /\ UNCHANGED outsideEm

\* line 309-310: for topic, q in self._subscribed_queues.items(): q.put(None)
\* (line 312, TaskManager.cleanup, is pass)
Cleanup310(t) ==
    /\ pc[t] = "C310"
    /\ LET q == SubscribedQueues[loc[t].i][2]
       IN /\ ~QFull(queues[q])
          /\ queues' = [queues EXCEPT ![q] = QPut(@, None)]
    /\ IF loc[t].i < Len(SubscribedQueues)
       THEN /\ loc' = [loc EXCEPT ![t].i = @ + 1]
            /\ UNCHANGED pc
       ELSE /\ loc' = [loc EXCEPT ![t].i = 1]
            /\ Goto(t, "C315")
    /\ UNCHANGED <<sub_list, nextq, npub, wpc, whand, received, retired>>
    /\ UNCHANGED emvars
    /\ UNCHANGED outsideEm

\* line 314-315: for topic in self._subscribed_queues.keys():
\* self.pubsub.unsubscribe(name="event_manager", topic=topic), the whole call
\* (line 53-57) in one step; cleanup returns after the last one.
Cleanup315(t) ==
    LET topic == SubscribedQueues[loc[t].i][1]
        registered == topic \in DOMAIN sub_list /\ DictHas(sub_list[topic], CleanupName)
        rest == DictDel(sub_list[topic], CleanupName)
    IN /\ pc[t] = "C315"
       /\ IF registered
          THEN /\ queues' = [queues EXCEPT ![DictGet(sub_list[topic], CleanupName)] = QPut(@, None)]
               /\ sub_list' = IF rest = <<>>
                               THEN [x \in DOMAIN sub_list \ {topic} |-> sub_list[x]]
                               ELSE [sub_list EXCEPT ![topic] = rest]
          ELSE UNCHANGED <<queues, sub_list>>
       /\ IF loc[t].i < Len(SubscribedQueues)
          THEN /\ loc' = [loc EXCEPT ![t].i = @ + 1]
               /\ UNCHANGED <<pc, em_cleaned>>
          ELSE /\ Return(t)
               /\ em_cleaned' = TRUE
       /\ UNCHANGED <<nextq, npub, wpc, whand, received, retired>>
       /\ UNCHANGED <<em_running, em_i, em_nh, em_data, em_called, em_sentinel, em_pub>>
       /\ UNCHANGED outsideEm

\* The EventManager at work while a second thread closes the window
\* (cleanup), or calls the registry's unsubscribe with the key of one of the
\* EventManager's own subscriptions.
EmStopNext ==
    \/ \E topic \in EmPubTopics, isMsg \in BOOLEAN, type \in EmTypes :
            (isMsg => npub["t1"] < MaxStopPub) /\ EmPublish("t1", topic, isMsg, type)
    \/ RouterStep
    \/ \E h \in Handlers : HandlerDispatch(h)
    \/ \E t \in Handlers \cup {"t1"} : Pub61(t)
    \/ \E t \in Handlers \cup {"t1"} : Pub62(t)
    \/ Workers
    \/ Cleanup("t2")
    \/ Cleanup307("t2")
    \/ Cleanup310("t2")
    \/ Cleanup315("t2")
    \/ \E k \in 1..Len(SubscribedQueues) :
            ~em_cleaned /\ Unsubscribe("t2", SubName, SubscribedQueues[k][1])
    \/ Unsub54("t2")
    \/ Unsub55("t2")
    \/ Unsub56("t2")
    \/ Unsub57("t2")

\* ------------------------------------------- business_logic.BusinessLogic
MaxBlCmds == 3      \* commands the user interface puts
MaxBlIter == 5      \* data updates one work loop sends

START == "start"
STOP == "stop"
\* A command dict without the key "command".
NoCommandKey == "<no key>"
BlCommands == {START, STOP, NoCommandKey}
\* line 66: a status update every so many data updates.
StatusEvery == 5

\* line 73-80: the dict _send_message puts; text stands for the message's
\* wording and n for the count in it.  The value and the timestamp of a data
\* update take part in no decision and are left out.
BlMessage(message_type, text, n) == [type |-> message_type, text |-> text, n |-> n]

BlInit ==
    /\ bl_running = FALSE
    /\ bl_thread = <<>>
    /\ bl_in = <<>>
    /\ bl_out = <<>>
    /\ bl_pc = [main |-> "new", listener |-> "new"]
    /\ bl_cmd = ""
    /\ bl_sent = 0

\* ui_app.py: the user interface puts a command.
BlSend(command) ==
    /\ bl_sent < MaxBlCmds
    /\ bl_sent' = bl_sent + 1
    /\ bl_in' = Append(bl_in, command)
    /\ UNCHANGED <<bl_running, bl_thread, bl_out, bl_pc, bl_cmd, outsideBl>>

\* line 22-23: start() starts the command thread.
BlStart ==
    /\ bl_pc.main = "new"
    /\ bl_pc' = [main |-> "S24", listener |-> "L31"]
    /\ UNCHANGED <<bl_running, bl_thread, bl_in, bl_out, bl_cmd, bl_sent, outsideBl>>

\* line 24
BlStart24 ==
    /\ bl_pc.main = "S24"
    /\ bl_out' = Append(bl_out, BlMessage("status_update", "initialised", 0))
    /\ bl_pc' = [bl_pc EXCEPT !.main = "done"]
    /\ UNCHANGED <<bl_running, bl_thread, bl_in, bl_cmd, bl_sent, outsideBl>>

\* line 31: the blocking get.
BlGet ==
    /\ bl_pc.listener = "L31"
    /\ bl_in # <<>>
    /\ bl_cmd' = Head(bl_in)
    /\ bl_in' = Tail(bl_in)
    /\ bl_pc' = [bl_pc EXCEPT !.listener = "L34"]
    /\ UNCHANGED <<bl_running, bl_thread, bl_out, bl_sent, outsideBl>>

\* line 34-35 and 40-41: the two tests, each with the assignment that follows
\* it; command["command"] raises KeyError when the key is missing.
BlDispatch ==
    /\ bl_pc.listener = "L34"
    /\ IF bl_cmd = NoCommandKey
       THEN /\ bl_pc' = [bl_pc EXCEPT !.listener = "L47"]
            /\ UNCHANGED bl_running
       ELSE IF bl_cmd = START /\ ~bl_running
       THEN /\ bl_running' = TRUE
            /\ bl_pc' = [bl_pc EXCEPT !.listener = "L37"]
       ELSE IF bl_cmd = STOP /\ bl_running
       THEN /\ bl_running' = FALSE
            /\ bl_pc' = [bl_pc EXCEPT !.listener = "L42"]
       ELSE /\ bl_pc' = [bl_pc EXCEPT !.listener = "L31"]
            /\ UNCHANGED bl_running
    /\ UNCHANGED <<bl_thread, bl_in, bl_out, bl_cmd, bl_sent, outsideBl>>

\* line 36-37: a new thread, at the test of its loop.
Bl37 ==
    /\ bl_pc.listener = "L37"
    /\ bl_thread' = Append(bl_thread, [pc |-> "W52", count |-> 0])
    /\ bl_pc' = [bl_pc EXCEPT !.listener = "L38"]
    /\ UNCHANGED <<bl_running, bl_in, bl_out, bl_cmd, bl_sent, outsideBl>>

\* line 38
Bl38 ==
    /\ bl_pc.listener = "L38"
    /\ bl_out' = Append(bl_out, BlMessage("status_update", "started", 0))
    /\ bl_pc' = [bl_pc EXCEPT !.listener = "L31"]
    /\ UNCHANGED <<bl_running, bl_thread, bl_in, bl_cmd, bl_sent, outsideBl>>

\* line 42-43: join returns once the thread has ended.
Bl43NoJoin ==
    /\ bl_pc.listener = "L42"
    /\ bl_pc' = [bl_pc EXCEPT !.listener = "L44"]
    /\ UNCHANGED <<bl_running, bl_thread, bl_in, bl_out, bl_cmd, bl_sent, outsideBl>>
Bl43 ==
    /\ bl_pc.listener = "L42"
    /\ bl_thread # <<>> => bl_thread[Len(bl_thread)].pc = "done"
    /\ bl_pc' = [bl_pc EXCEPT !.listener = "L44"]
    /\ UNCHANGED <<bl_running, bl_thread, bl_in, bl_out, bl_cmd, bl_sent, outsideBl>>

\* line 44
Bl44 ==
    /\ bl_pc.listener = "L44"
    /\ bl_out' = Append(bl_out, BlMessage("status_update", "stopped", 0))
    /\ bl_pc' = [bl_pc EXCEPT !.listener = "L31"]
    /\ UNCHANGED <<bl_running, bl_thread, bl_in, bl_cmd, bl_sent, outsideBl>>

\* line 46-47: the error message, then the loop goes on.
Bl47 ==
    /\ bl_pc.listener = "L47"
    /\ bl_out' = Append(bl_out, BlMessage("error", "KeyError", 0))
    /\ bl_pc' = [bl_pc EXCEPT !.listener = "L31"]
    /\ UNCHANGED <<bl_running, bl_thread, bl_in, bl_cmd, bl_sent, outsideBl>>

\* line 52: the test of the work loop, by the thread started as the w-th.
Work52(w) ==
    /\ w \in DOMAIN bl_thread
    /\ bl_thread[w].pc = "W52"
    /\ bl_running => bl_thread[w].count < MaxBlIter
    /\ bl_thread' = [bl_thread EXCEPT ![w].pc = IF bl_running THEN "W58" ELSE "W71"]
    /\ UNCHANGED <<bl_running, bl_in, bl_out, bl_pc, bl_cmd, bl_sent, outsideBl>>

\* line 54-62
Work58(w) ==
    /\ w \in DOMAIN bl_thread
    /\ bl_thread[w].pc = "W58"
    /\ bl_out' = Append(bl_out, BlMessage("data_update", "data", 0))
    /\ bl_thread' = [bl_thread EXCEPT ![w].pc = "W64"]
    /\ UNCHANGED <<bl_running, bl_in, bl_pc, bl_cmd, bl_sent, outsideBl>>

\* line 64-67
Work64(w) ==
    /\ w \in DOMAIN bl_thread
    /\ bl_thread[w].pc = "W64"
    /\ LET count == bl_thread[w].count + 1 IN
        /\ bl_thread' = [bl_thread EXCEPT ![w] = [pc |-> "W69", count |-> count]]
        /\ bl_out' = IF count % StatusEvery = 0
                        THEN Append(bl_out, BlMessage("status_update", "processed", count))
                        ELSE bl_out
    /\ UNCHANGED <<bl_running, bl_in, bl_pc, bl_cmd, bl_sent, outsideBl>>

\* line 69: the sleep ends.
Work69(w) ==
    /\ w \in DOMAIN bl_thread
    /\ bl_thread[w].pc = "W69"
    /\ bl_thread' = [bl_thread EXCEPT ![w].pc = "W52"]
    /\ UNCHANGED <<bl_running, bl_in, bl_out, bl_pc, bl_cmd, bl_sent, outsideBl>>

\* line 71: the summary; the thread ends.
Work71(w) ==
    /\ w \in DOMAIN bl_thread
    /\ bl_thread[w].pc = "W71"
    /\ bl_out' = Append(bl_out, BlMessage("status_update", "total", bl_thread[w].count))
    /\ bl_thread' = [bl_thread EXCEPT ![w].pc = "done"]
    /\ UNCHANGED <<bl_running, bl_in, bl_pc, bl_cmd, bl_sent, outsideBl>>

\* The user interface, the command thread and the work-loop threads.
BlNext ==
    \/ \E command \in BlCommands : BlSend(command)
    \/ BlStart
    \/ BlStart24
    \/ BlGet
    \/ BlDispatch
    \/ Bl37
    \/ Bl38
    \/ Bl43
    \/ Bl44
    \/ Bl47
    \/ \E w \in 1..MaxBlCmds :
        Work52(w) \/ Work58(w) \/ Work64(w) \/ Work69(w) \/ Work71(w)

\* ------------------------------ thread_module.TaskThread, stop_injector.TaskThread
MaxTtCalls == 2     \* calls of the target function run() makes
MaxTtStops == 2     \* calls of stop()

TtClasses == {"thread_module", "stop_injector"}

\* A TaskThread of class cls after __init__ and, when target or callback is
\* TRUE, after setup_task with a function for it: the event is clear, the
\* thread has not been started.
\*   calls, cbs   calls of the target and of the callback made so far
\*   stops        calls of stop() made so far
\*   seen         run() has found the event set
\*   end          how run() ended
NewTaskThread(cls, target, callback) ==
    [cls |-> cls, target |-> target, callback |-> callback, event |-> FALSE,
     pc |-> "new", calls |-> 0, cbs |-> 0, stops |-> 0, seen |-> FALSE, end |-> ""]

TtNone == tt = NewTaskThread("thread_module", FALSE, FALSE)

\* start(): run() begins.  thread_module line 21-22 raises ValueError outside
\* the try, stop_injector line 82-84 returns, when no target was set.
TtRun ==
    /\ tt.pc = "new"
    /\ tt' = IF tt.target THEN [tt EXCEPT !.pc = "L26"]
                          ELSE [tt EXCEPT !.pc = "done", !.end = "no target"]
    /\ UNCHANGED outsideTt

\* thread_module line 26, stop_injector line 87: the test of the loop; a set
\* event takes run() through the finally clause to its end.
TtTest ==
    /\ tt.pc = "L26"
    /\ tt.event \/ tt.calls < MaxTtCalls
    /\ tt' = IF tt.event THEN [tt EXCEPT !.pc = "done", !.end = "stopped", !.seen = TRUE]
                         ELSE [tt EXCEPT !.pc = "L28"]
    /\ UNCHANGED outsideTt

\* thread_module line 28, stop_injector line 89: the call of the target.
TtCall ==
    /\ tt.pc = "L28"
    /\ tt' = [tt EXCEPT !.pc = "target", !.calls = @ + 1]
    /\ UNCHANGED outsideTt

\* The target returns.
TtTargetReturns ==
    /\ tt.pc = "target"
    /\ tt' = [tt EXCEPT !.pc = "L31"]
    /\ UNCHANGED outsideTt

\* The target raises: thread_module line 40-43, stop_injector line 94-97.
TtTargetRaisesRetried ==
    /\ tt.pc = "target"
    /\ tt' = [tt EXCEPT !.pc = "L26", !.end = "exception"]
    /\ UNCHANGED outsideTt
TtTargetRaises ==
    /\ tt.pc = "target"
    /\ tt' = [tt EXCEPT !.pc = "done", !.end = "exception"]
    /\ UNCHANGED outsideTt

\* thread_module line 31: `if self._callback_func`; stop_injector line 91:
\* `if self._callback_func and not self._stop_event.is_set()`.
TtCbTest ==
    /\ tt.pc = "L31"
    /\ LET isSet == tt.cls = "stop_injector" /\ tt.callback /\ tt.event IN
        tt' = [tt EXCEPT !.pc = IF tt.callback /\ ~isSet THEN "L32" ELSE "L26",
                         !.seen = @ \/ isSet]
    /\ UNCHANGED outsideTt

\* thread_module line 32, stop_injector line 92: the call of the callback.
TtCbCall ==
    /\ tt.pc = "L32"
    /\ tt' = [tt EXCEPT !.pc = "callback", !.cbs = @ + 1]
    /\ UNCHANGED outsideTt

\* The callback returns.
TtCbReturns ==
    /\ tt.pc = "callback"
    /\ tt' = [tt EXCEPT !.pc = "L26"]
    /\ UNCHANGED outsideTt

\* The callback raises: thread_module line 40-43, stop_injector line 94-97.
TtCbRaises ==
    /\ tt.pc = "callback"
    /\ tt' = [tt EXCEPT !.pc = "done", !.end = "exception"]
    /\ UNCHANGED outsideTt

\* thread_module line 45-48, stop_injector line 99-102: stop(), by any thread.
TtStop ==
    /\ tt.stops < MaxTtStops
    /\ tt' = [tt EXCEPT !.event = TRUE, !.stops = @ + 1]
    /\ UNCHANGED outsideTt

TtNext ==
    \/ TtRun
    \/ TtTest
    \/ TtCall
    \/ TtTargetReturns
    \/ TtTargetRaises
    \/ TtCbTest
    \/ TtCbCall
    \/ TtCbReturns
    \/ TtCbRaises
    \/ TtStop

\* ------------------------------------------------ stop_injector.auto_stop_check
MaxAscCalls == 2    \* calls of the wrapper

\* What the plain function f does when it is called.
FOutcomes == {"returns 1", "returns 2", "raises"}

\* Before `@auto_stop_check(interval=0.1)` is executed.
\*   lazy       the interpreter evaluates annotations on demand (Python 3.14 on);
\*              earlier ones evaluate them when the def statement is executed
\*   f          what f does when called
\*   decorated  what the decoration left under f's name
\*   stop       the stop_event passed to the wrapper
\*   calls      calls of the wrapper made so far
\*   ret        what the last call of the wrapper gave its caller
\*   gen        the generator object that call created
\*   ran        calls of f made for that call of the wrapper
\*   runner     the runner thread; result, error, is_done: line 33-35
\*   out        how the generator's body ended
NewAsc(lazy, f) ==
    [lazy |-> lazy, f |-> f, decorated |-> "", stop |-> FALSE, calls |-> 0,
     ret |-> "", gen |-> "", ran |-> 0, pc |-> "", runner |-> "", result |-> "",
     error |-> FALSE, is_done |-> FALSE, out |-> ""]

AscNone == asc = NewAsc(FALSE, "returns 1")

\* line 10-15 and 64-65: auto_stop_check(interval) executes `def decorator`,
\* whose return annotation `Callable[P + (threading.Event,), R]` adds a tuple
\* to a ParamSpec: TypeError when annotations are evaluated at the def.
AscDecorate ==
    /\ asc.decorated = ""
    /\ asc' = [asc EXCEPT !.decorated = IF asc.lazy THEN "wrapper" ELSE "TypeError"]
    /\ UNCHANGED outsideAsc

\* Another thread sets the stop event.
AscSetStop ==
    /\ ~asc.stop
    /\ asc' = [asc EXCEPT !.stop = TRUE]
    /\ UNCHANGED outsideAsc

\* line 18: wrapper(*args, stop_event=...).  The body of wrapper contains a
\* yield (line 27), so wrapper is a generator function: the call runs none of
\* its body and returns a generator object.  The generator of an earlier call
\* is dropped, run to its end or not run at all.
AscCall ==
    /\ asc.decorated = "wrapper"
    /\ asc.gen \in {"", "created", "finished"}
    /\ asc.calls < MaxAscCalls
    /\ asc' = [asc EXCEPT !.calls = @ + 1, !.ret = "generator", !.gen = "created",
                          !.ran = 0, !.runner = "", !.result = "", !.error = FALSE,
                          !.is_done = FALSE, !.out = ""]
    /\ UNCHANGED outsideAsc

\* The caller asks the generator for its first value; line 20, 33-47: f is
\* not a generator function, the runner thread is started.
AscNextGen ==
    /\ asc.gen = "created"
    /\ asc' = [asc EXCEPT !.gen = "running", !.pc = "L50", !.runner = "L40"]
    /\ UNCHANGED outsideAsc

\* line 39-42: the runner thread calls f and keeps its result or its exception.
AscRun40 ==
    /\ asc.runner = "L40"
    /\ asc' = IF asc.f = "raises"
                THEN [asc EXCEPT !.runner = "L44", !.ran = @ + 1, !.error = TRUE]
                ELSE [asc EXCEPT !.runner = "L44", !.ran = @ + 1, !.result = asc.f]
    /\ UNCHANGED outsideAsc

\* line 43-44: is_done.set(); the runner thread ends.
AscRun44 ==
    /\ asc.runner = "L44"
    /\ asc' = [asc EXCEPT !.runner = "done", !.is_done = TRUE]
    /\ UNCHANGED outsideAsc

\* line 50-51: the loop ends once is_done or stop_event is set.
Asc50 ==
    /\ asc.pc = "L50"
    /\ asc.is_done \/ asc.stop
    /\ asc' = [asc EXCEPT !.pc = "L59"]
    /\ UNCHANGED outsideAsc

\* line 53-59: a log line at most, then join waits for the runner thread.
Asc59 ==
    /\ asc.pc = "L59"
    /\ asc.runner = "done"
    /\ asc' = [asc EXCEPT !.pc = "L61"]
    /\ UNCHANGED outsideAsc

\* line 61-63: raise error[0], or return result[0], which inside a generator
\* raises StopIteration carrying the value.
Asc61 ==
    /\ asc.pc = "L61"
    /\ asc' = [asc EXCEPT !.pc = "", !.gen = "finished",
                          !.out = IF asc.error THEN "raises"
                                  ELSE "StopIteration: " \o asc.result]
    /\ UNCHANGED outsideAsc

AscNext ==
    \/ AscDecorate
    \/ AscSetStop
    \/ AscCall
    \/ AscNextGen
    \/ AscRun40
    \/ AscRun44
    \/ Asc50
    \/ Asc59
    \/ Asc61

AppInit == BlInit /\ TtNone /\ AscNone

\* The program starts with an empty registry; the CommunicationQueue of the
\* registry specifications is the default one.
Init ==
    /\ RegInit /\ CQInit(DefaultMaxsize, NoneOpt) /\ GbtInit /\ MsgInit /\ PsInit /\ EmNone
    /\ AppInit

\* One thread calls the registry; the workers run concurrently with it.
Next == Calls({"t1"}, MaxQueues, MaxPub) \/ Workers

Spec == Init /\ [][Next]_vars

\* The same with room for a third mailbox: two subscribers and a replacement.
ResubNext == Calls({"t1"}, MaxResubQueues, MaxResubPub) \/ Workers

ResubSpec == Init /\ [][ResubNext]_vars

\* Two threads call the registry concurrently.
RaceNext == Calls(Threads, MaxRaceQueues, MaxRacePub) \/ Workers

RaceSpec == Init /\ [][RaceNext]_vars

\* One CommunicationQueue, built with any maxsize and allow-list, and the calls
\* of its producers and its consumer.
MessageTypeLists == {NoneOpt, Some(<<>>), Some(<<"a">>)}

CQSpecInit ==
    /\ RegInit
    /\ GbtInit
    /\ MsgInit
    /\ PsInit
    /\ EmNone
    /\ AppInit
    /\ \E maxsize \in 0..MaxCap, message_types \in MessageTypeLists : CQInit(maxsize, message_types)

CQNext ==
    \/ \E type \in MsgTypes, h \in Hooks : RegisterHook(type, h)
    \/ \E type \in MsgTypes, block \in BOOLEAN, hasTimeout \in BOOLEAN : Put(type, block, hasTimeout)
    \/ \E block \in BOOLEAN, hasTimeout \in BOOLEAN : Get(block, hasTimeout)

CQSpec == CQSpecInit /\ [][CQNext]_vars

\* One CommunicationQueue whose producers put and whose single consumer calls
\* get and get_by_type; nothing else touches the queue while a get_by_type call
\* is running.  The type "a" may have a raising callback registered.
GbtSpecInit ==
    /\ RegInit
    /\ GbtInit
    /\ MsgInit
    /\ PsInit
    /\ EmNone
    /\ AppInit
    /\ \E maxsize \in 0..MaxGbtCap, message_types \in MessageTypeLists : CQInit(maxsize, message_types)

GbtNext ==
    \/ /\ gbt.pc = "idle"
       /\ \/ HooksFor("a") = <<>> /\ RegisterHook("a", "hook_raise")
          \/ \E type \in MsgTypes, block \in BOOLEAN, hasTimeout \in BOOLEAN :
                cq_nmsg < MaxGbtMsgs /\ Put(type, block, hasTimeout)
          \/ \E block \in BOOLEAN, hasTimeout \in BOOLEAN : Get(block, hasTimeout)
    \/ \E message_type \in MsgTypes, block \in BOOLEAN, hasTimeout \in BOOLEAN :
            GetByType(message_type, block, hasTimeout)
    \/ Gbt136Timeout
    \/ Gbt139
    \/ Gbt144

GbtSpec == GbtSpecInit /\ [][GbtNext]_vars

\* Producers put, without waiting, while the consumer is inside get_by_type.
GbtRaceNext ==
    \/ \E type \in MsgTypes : cq_nmsg < MaxGbtRaceMsgs /\ Put(type, FALSE, FALSE)
    \/ \E message_type \in MsgTypes, block \in BOOLEAN, hasTimeout \in BOOLEAN :
            GetByType(message_type, block, hasTimeout)
    \/ Gbt136Timeout
    \/ Gbt139
    \/ Gbt144

GbtRaceSpec == GbtSpecInit /\ [][GbtRaceNext]_vars

\* The thread inside get_by_type keeps running.
GbtLiveSpec == GbtSpec /\ WF_vars(Gbt139) /\ WF_vars(Gbt144)

\* One thread calls the pubsub_module registry; the consumer threads run
\* concurrently with it.
PsNext == PsCalls({"t1"}) \/ PsWorkers

PsSpec == Init /\ [][PsNext]_vars

\* Two threads subscribe concurrently; one of them publishes.
PsRaceNext ==
    \/ \E t \in Threads, topic \in PsTopics :
            PsQueueBudget(MaxPsRaceQueues) /\ PsSubscribe(t, topic, "cb_ok")
    \/ \E t \in Threads : Ps12(t)
    \/ \E t \in Threads : Ps15(t)
    \/ \E t \in Threads : Ps17(t)
    \/ \E t \in Threads : Ps18(t)
    \/ \E t \in Threads : Ps18w(t)
    \/ \E t \in Threads : Ps29(t)
    \/ \E topic \in PsTopics : PsPublish("t1", topic, TRUE)
    \/ Ps42("t1")
    \/ Ps43("t1")
    \/ PsWorkers

PsRaceSpec == Init /\ [][PsRaceNext]_vars

\* The two registries are two programs: a run uses the one of demo.py or the
\* one of pubsub_module.py, each with its workers.
WorkerNext ==
    \/ PsInit /\ Next
    \/ RegInit /\ PsNext

WorkerSpec == Init /\ [][WorkerNext]_vars

\* The same two programs with publish calls that carry a message.
PsMsgNext ==
    \/ PsCalls({"t1"}) /\ ps_npub' = ps_npub
    \/ \E topic \in PsTopics : PsPublish("t1", topic, TRUE)
    \/ PsWorkers

UnsubNext ==
    \/ PsInit /\ Next
    \/ RegInit /\ PsMsgNext

UnsubSpec == Init /\ [][UnsubNext]_vars

\* The program of demo.py with its EventManager constructed.
EmSpecInit ==
    /\ EmInit /\ CQInit(DefaultMaxsize, NoneOpt) /\ GbtInit /\ MsgInit /\ PsInit
    /\ AppInit

EmSpec == EmSpecInit /\ [][EmNext]_vars

EmRouteSpec == EmSpecInit /\ [][EmRouteNext]_vars

\* The processing thread and the handler threads it starts keep running; the
\* producers and the subscriber's worker may stay where they are for ever.
EmRouteLiveSpec ==
    /\ EmRouteSpec
    /\ WF_vars(RouterStep)
    /\ \A k \in 1..MaxRoutePub :
          /\ WF_vars(HandlerDispatch(HandlerNames[k]))
          /\ WF_vars(Pub61(HandlerNames[k]) \/ Pub62(HandlerNames[k]))

EmStopSpec == EmSpecInit /\ [][EmStopNext]_vars

\* A BusinessLogic, its user interface and its threads.
BlSpec == Init /\ [][BlNext]_vars

\* A TaskThread of either class, with or without target and callback, started
\* and stopped by other threads.
TtSpecInit ==
    /\ RegInit /\ CQInit(DefaultMaxsize, NoneOpt) /\ GbtInit /\ MsgInit /\ PsInit /\ EmNone
    /\ BlInit /\ AscNone
    /\ \E cls \in TtClasses, target \in BOOLEAN, callback \in BOOLEAN :
            tt = NewTaskThread(cls, target, callback)

TtSpec == TtSpecInit /\ [][TtNext]_vars

\* run() keeps running; the calls it makes of the target and of the callback
\* may never return.
TtLiveSpec ==
    /\ TtSpec
    /\ WF_vars(TtTest) /\ WF_vars(TtCall) /\ WF_vars(TtCbTest) /\ WF_vars(TtCbCall)

\* A plain function is decorated with auto_stop_check and its wrapper called.
AscSpecInit ==
    /\ RegInit /\ CQInit(DefaultMaxsize, NoneOpt) /\ GbtInit /\ MsgInit /\ PsInit /\ EmNone
    /\ BlInit /\ TtNone
    /\ \E lazy \in BOOLEAN, f \in FOutcomes : asc = NewAsc(lazy, f)

AscSpec == AscSpecInit /\ [][AscNext]_vars

\* Fair scheduling of the handler threads only: the processing thread and the
\* subscriber's worker may stay where they are for ever.
EmLiveSpec ==
    /\ EmSpec
    /\ \A k \in 1..MaxEmPub :
          /\ WF_vars(HandlerDispatch(HandlerNames[k]))
          /\ WF_vars(Pub61(HandlerNames[k]) \/ Pub62(HandlerNames[k]))

\* Threads construct Messages and pass them through the MessageSerializer
\* while the clock moves on.
MsgNext ==
    \/ Tick
    \/ \E t \in Threads, type \in ConstructTypes, payload \in Payloads,
          timestamp \in GivenTimestamps, message_id \in GivenIds :
            Construct(t, type, payload, timestamp, message_id)
    \/ \E t \in Threads : RoundTrip(t)

MsgSpec == Init /\ [][MsgNext]_vars

\* Fair scheduling of the workers: a worker that can dequeue or finish its
\* handler eventually does (the handlers return).
\* One thread calls the registry and the workers are scheduled fairly.
LiveNext == Calls({"t1"}, MaxLiveQueues, MaxLivePub) \/ Workers

LiveSpec ==
    /\ Init /\ [][LiveNext]_vars
    /\ \A q \in 1..MaxLiveQueues : WF_vars(WorkerGet(q)) /\ WF_vars(WorkerHandle(q))

\* Fair scheduling of the calling threads inside publish only: the workers
\* may stay where they are for ever.
PubLiveSpec == Spec /\ \A t \in Threads : WF_vars(Pub61(t) \/ Pub62(t))

\* ------------------------------------------------------------ properties
Range(f) == {f[i] : i \in DOMAIN f}
Last(f) == f[Len(f)]

\* Everything a mailbox was given and its worker has not dropped: the messages
\* handed to the handler, the one in the handler, and the ones still queued.
Hist(q) == received[q] \o (IF wpc[q] = "handle" THEN <<whand[q]>> ELSE <<>>) \o queues[q]

MappedIn(sl, q) == \E topic \in DOMAIN sl : q \in Range(DictValues(sl[topic]))
Mapped(q) == MappedIn(sub_list, q)
SentinelPushed(q) == wpc[q] = "done" \/ None \in Range(queues[q])

InOrder(h) ==
    \A i, j \in 1..Len(h) :
        (i < j /\ h[i] # None /\ h[j] # None /\ h[i][1] = h[j][1]) => h[i][2] < h[j][2]

\* C1: the messages one publisher publishes to a topic are in every mailbox
\* in the order of the publish calls, in the queue and in what the worker
\* has dequeued, and a publish call has put its message in every mailbox of
\* its snapshot it has gone past.
C1_PublishOrderKept ==
    /\ \A q \in QIds : InOrder(Hist(q))
    /\ \A t \in Threads :
          pc[t] = "L62" =>
              \A k \in 1..(loc[t].i - 1) : loc[t].msg \in Range(Hist(loc[t].snap[k]))

\* Two subscribers: one has dequeued m1 then m2, the other holds them queued.
C1_Witness ==
    \E q1, q2 \in QIds :
        /\ q1 # q2
        /\ received[q1] = << <<"t1", 1>>, <<"t1", 2>> >>
        /\ queues[q2] = << <<"t1", 1>>, <<"t1", 2>> >>

\* C2: a subscribe call that found its key registered ends by returning a
\* fresh empty queue registered under the key, the old queue having been given
\* the exit signal and removed.
C2_ResubscribeInstallsFresh ==
    [][\A t \in Threads :
          (pc[t] = "L48" /\ loc[t].inSub /\ pc'[t] = "idle") =>
              /\ nextq' = nextq + 1
              /\ loc[t].topic \in DOMAIN sub_list'
              /\ DictHas(sub_list'[loc[t].topic], loc[t].name)
              /\ DictGet(sub_list'[loc[t].topic], loc[t].name) = nextq
              /\ queues'[nextq] = <<>>
              /\ loc[t].old # 0
              /\ SentinelPushed(loc[t].old)
              /\ ~MappedIn(sub_list', loc[t].old)]_vars

\* C3: once the subscribe call that replaced a mailbox has returned, the exit
\* signal is the last thing the replaced mailbox was given, and no publish
\* call has it among the queues it is going to put into.
C3_RetiredGetsNothing ==
    /\ \A p \in retired :
          IF wpc[p[1]] = "done"
          THEN queues[p[1]] = <<>>
          ELSE queues[p[1]] # <<>> /\ Last(queues[p[1]]) = None
    /\ \A t \in Threads :
          pc[t] = "L62" =>
              \A k \in loc[t].i..Len(loc[t].snap) : \A p \in retired : loc[t].snap[k] # p[1]

\* A message published after the second subscribe is in the new mailbox while
\* the replaced one still ends with the exit signal.
C3_Witness ==
    \E p \in retired :
        /\ Hist(p[2]) # <<>>
        /\ queues[p[1]] # <<>>
        /\ pc["t1"] = "idle"

\* C4: a key has at most one mailbox, and every mailbox that was registered
\* and is no longer has been given the exit signal.
C4_UnmappedHaveSentinel ==
    /\ \A topic \in DOMAIN sub_list, name \in Names :
          Cardinality(DictIdx(sub_list[topic], name)) <= 1
    /\ \A q \in 1..(nextq - 1) : ~Mapped(q) => SentinelPushed(q)

\* C5: a mailbox that holds the exit signal of an unsubscribe has its worker
\* terminate eventually.
C5_WorkerTerminates ==
    \A q \in QIds : (None \in Range(queues[q])) ~> (wpc[q] = "done")

\* A worker that was waiting on an empty mailbox and never got a message has
\* terminated.
C5_Witness ==
    \E q \in QIds : wpc[q] = "done" /\ received[q] = <<>> /\ queues[q] = <<>> /\ ~Mapped(q)

\* C6: every queue a publish call is about to put into is registered at that
\* moment and has not been given the exit signal.
C6_PublishOnlyToLive ==
    \A t \in Threads :
        (pc[t] = "L62" /\ loc[t].i <= Len(loc[t].snap)) =>
            /\ Mapped(loc[t].snap[loc[t].i])
            /\ ~SentinelPushed(loc[t].snap[loc[t].i])

\* C7: a publish call in progress returns, whatever the workers do or do not
\* do, and when it returns from its loop its message has been put into every
\* mailbox of its snapshot.
C7_PublishCompletes ==
    /\ \A t \in Threads : (pc[t] \in {"L61", "L62"}) ~> (pc[t] = "idle")
    /\ [][\A t \in Threads :
              (pc[t] = "L62" /\ pc'[t] = "idle") =>
                  /\ loc[t].i = Len(loc[t].snap) + 1
                  /\ \A k \in 1..Len(loc[t].snap) :
                        loc[t].msg \in Range(Hist(loc[t].snap[k]))]_vars

\* Both messages were delivered to a subscriber whose worker never dequeued
\* and to one whose worker is still inside its handler.
C7_Witness ==
    \E q1, q2 \in QIds :
        /\ pc["t1"] = "idle"
        /\ wpc[q1] = "get" /\ received[q1] = <<>> /\ Len(queues[q1]) = 2
        /\ wpc[q2] = "handle" /\ received[q2] = <<>> /\ queues[q2] = << <<"t1", 2>> >>

\* The message type is outside a configured, non-empty allow-list.
NotAllowed(type) == cq_types # NoneOpt /\ cq_types[1] # {} /\ type \notin cq_types[1]
IsPutStep == cq_nmsg' = cq_nmsg + 1

C8_State ==
    /\ cq_maxsize > 0 => Len(cq_inner) <= cq_maxsize
    /\ \A i \in 1..Len(cq_inner) : cq_inner[i].id \notin cq_refused
    /\ cq_out.kind = "Message" => cq_out.msg.id \notin cq_refused

C8_Step ==
    (IsPutStep /\ cq_maxsize > 0 /\ Len(cq_inner) = cq_maxsize /\ ~NotAllowed(cq_out'.msg.type)) =>
        /\ cq_out' = Out("False", [type |-> cq_out'.msg.type, id |-> cq_nmsg + 1])
        /\ cq_dropped' = cq_dropped + 1
        /\ cq_calls' = <<>>
        /\ cq_inner' = cq_inner
        /\ cq_nmsg + 1 \in cq_refused'

\* C8: a put on a queue that holds maxsize > 0 messages returns False, adds
\* one to the drop counter, calls no hook and leaves the queue as it was; the
\* queue never holds more than maxsize messages, and a message a put refused
\* is never in the queue nor returned by get.
C8_FullQueueDropsPut == []C8_State /\ [][C8_Step]_vars

\* A queue of maxsize 2 holding 2 messages has refused a third whose type has
\* a hook registered.
C8_Witness ==
    /\ cq_maxsize = 2 /\ Len(cq_inner) = 2
    /\ cq_out.kind = "False" /\ cq_dropped = 1
    /\ HooksFor(cq_out.msg.type) # <<>>

\* C9: a put that enqueues a message whose type has a raising hook returns
\* True, has called every hook of the type in order, leaves the drop counter
\* alone and leaves the message at the tail of the queue; get returns the head.
C9_RaisingHookIsolated ==
    [][/\ (/\ IsPutStep
           /\ ~NotAllowed(cq_out'.msg.type)
           /\ ~(cq_maxsize > 0 /\ Len(cq_inner) >= cq_maxsize)
           /\ \E i \in 1..Len(HooksFor(cq_out'.msg.type)) : HookRaises(HooksFor(cq_out'.msg.type)[i]))
          => /\ cq_out'.kind = "True"
             /\ cq_calls' = HooksFor(cq_out'.msg.type)
             /\ cq_dropped' = cq_dropped
             /\ cq_inner' = Append(cq_inner, cq_out'.msg)
       /\ (cq_nmsg' = cq_nmsg /\ cq_inner' # cq_inner)
          => /\ cq_out' = Out("Message", Head(cq_inner))
             /\ cq_inner' = Tail(cq_inner)]_vars

\* The put returned True although the first hook of the type raised, and the
\* hook registered after it was called as well.
C9_Witness ==
    /\ cq_out.kind = "True"
    /\ cq_calls = <<"hook_raise", "hook_ok">>
    /\ cq_inner # <<>> /\ Last(cq_inner) = cq_out.msg

C10_State == (cq_types = NoneOpt \/ cq_types[1] = {}) => cq_out.kind # "ValueError"

C10_Step ==
    (IsPutStep /\ NotAllowed(cq_out'.msg.type)) =>
        /\ cq_out'.kind = "ValueError"
        /\ cq_inner' = cq_inner
        /\ cq_calls' = <<>>
        /\ cq_dropped' = cq_dropped

\* C10: a put of a message whose type is outside the allow-list raises and
\* changes neither the queue nor the drop counter and calls no hook; without
\* an allow-list no put raises.
C10_DisallowedTypeRaises == []C10_State /\ [][C10_Step]_vars

\* A put of type "b" was refused by the allow-list {"a"} although "b" has a
\* hook and the queue has room.
C10_Witness ==
    /\ cq_out.kind = "ValueError" /\ cq_out.msg.type = "b"
    /\ HooksFor("b") # <<>>
    /\ cq_inner # <<>> /\ Len(cq_inner) < cq_maxsize
    /\ cq_dropped = 0

\* C11: no Message object has the empty string as its type: a construction
\* with an empty type fails and produces no object.
C11_EmptyTypeRejected ==
    /\ m_out.kind = "Message" => m_out.msg.type # ""
    /\ m_out.kind = "Decoded" => m_out.back.type # ""

\* C12: the Messages constructed without a given message_id have message_ids
\* that differ two by two.
C12_GeneratedIdsDiffer ==
    \A i, j \in 1..Len(m_made) : i # j => m_made[i] # m_made[j]

\* C13: serialize followed by deserialize gives, for the Message constructed
\* last, a Message equal to it in type, payload, timestamp and message_id.
C13_RoundTripEqual ==
    /\ m_out.kind # "TypeError"
    /\ m_out.kind = "Decoded" =>
          /\ m_out.back.type = m_out.msg.type
          /\ m_out.back.payload = m_out.msg.payload
          /\ m_out.back.timestamp = m_out.msg.timestamp
          /\ m_out.back.message_id = m_out.msg.message_id

\* The first message of the type in a queue, and the queue without it and
\* with the messages before it moved behind the ones after it.
FirstOfType(qu, type) == CHOOSE i \in 1..Len(qu) : qu[i].type = type /\ \A j \in 1..(i - 1) : qu[j].type # type
HasType(qu, type) == \E i \in 1..Len(qu) : qu[i].type = type
Rotated(qu, i) == SubSeq(qu, i + 1, Len(qu)) \o SubSeq(qu, 1, i - 1)

\* C14 as stated, for every call: a get_by_type call on a queue that holds a
\* message of the type returns the first such message and leaves the messages
\* after it followed by the messages before it.
C14_FirstOfTypeAnyCall ==
    [][(gbt.pc # "idle" /\ gbt'.pc = "idle" /\ HasType(gbt.at, gbt.type)) =>
          /\ gbt_out' = Out("Message", gbt.at[FirstOfType(gbt.at, gbt.type)])
          /\ cq_inner' = Rotated(gbt.at, FirstOfType(gbt.at, gbt.type))]_vars

\* C14 amended: the same for the calls made without a timeout.
C14_FirstOfTypeNoTimeout ==
    [][(gbt.pc # "idle" /\ gbt'.pc = "idle" /\ ~gbt.hasTimeout /\ HasType(gbt.at, gbt.type)) =>
          /\ gbt_out' = Out("Message", gbt.at[FirstOfType(gbt.at, gbt.type)])
          /\ cq_inner' = Rotated(gbt.at, FirstOfType(gbt.at, gbt.type))]_vars

\* [a1, a2, b3, a4] has become [a4, a1, a2] and b3 was returned by a call
\* without timeout.
C14_Witness ==
    /\ gbt.pc = "idle" /\ ~gbt.hasTimeout
    /\ gbt_out = Out("Message", [type |-> "b", id |-> 3])
    /\ cq_inner = << [type |-> "a", id |-> 4], [type |-> "a", id |-> 1], [type |-> "a", id |-> 2] >>

\* Between the calls of the single caller every registered topic has a
\* subscriber, and UNKNOWN is never registered; a publish call goes past line
\* 60 only with a message.
C15_State ==
    /\ UNKNOWN \notin DOMAIN sub_list
    /\ (\A t \in Threads : pc[t] = "idle") =>
          \A topic \in DOMAIN sub_list : sub_list[topic] # <<>>
    /\ \A t \in Threads : pc[t] \in {"L61", "L62"} => loc[t].msg # None

\* The step of a publish call with a message: it goes on to line 61 only for a
\* registered topic, and otherwise has returned without an error, leaving the
\* registry and every mailbox as they were.
C15_Step ==
    \A t \in Threads :
        (pc[t] = "idle" /\ npub'[t] # npub[t]) =>
            IF pc'[t] = "L61"
            THEN loc'[t].topic \in DOMAIN sub_list
            ELSE /\ pc'[t] = "idle" /\ ~loc'[t].raised
                 /\ sub_list' = sub_list
                 /\ queues' = queues

\* C15: publish to a topic without subscribers, UNKNOWN included, or without
\* a message raises nothing, enqueues nothing and leaves the registry alone.
C15_PublishNoOp == []C15_State /\ [][C15_Step]_vars

\* The caller's first message went to no mailbox although its second one was
\* delivered to a subscriber.
C15_Witness ==
    \E q \in QIds :
        /\ pc["t1"] = "idle" /\ npub["t1"] = 2
        /\ received[q] = << <<"t1", 2>> >>
        /\ \A r \in QIds : <<"t1", 1>> \notin Range(Hist(r))

\* C16: whatever the callback of a consumer thread does, the thread is back
\* at its get afterwards: an exception of the callback does not end it.
C16_HandlerErrorKeepsWorker ==
    [][\A q \in PsQIds :
          (ps_wpc[q] = "callback" /\ ps_wpc'[q] # "callback") => ps_wpc'[q] = "get"]_vars

IsPrefix(a, b) == Len(a) <= Len(b) /\ SubSeq(b, 1, Len(a)) = a

\* No handler is ever called with the exit signal.
C17_State ==
    /\ \A q \in PsQIds :
          /\ None \notin Range(ps_handled[q])
          /\ ps_wpc[q] = "callback" => ps_whand[q] # None
    /\ \A q \in QIds :
          /\ None \notin Range(received[q])
          /\ wpc[q] = "handle" => whand[q] # None

\* The worker that takes the exit signal from its queue has left its loop,
\* and a worker that has left its loop stays there: it takes nothing from its
\* queue, whatever is put there, and calls no handler.
C17_Step ==
    /\ \A q \in PsQIds :
          /\ (ps_wpc[q] = "get" /\ ps_queues[q] # <<>> /\ Head(ps_queues[q]) = None
                /\ ps_queues'[q] = Tail(ps_queues[q])) => ps_wpc'[q] = "done"
          /\ ps_wpc[q] = "done" =>
                /\ ps_wpc'[q] = "done"
                /\ ps_handled'[q] = ps_handled[q]
                /\ IsPrefix(ps_queues[q], ps_queues'[q])
    /\ \A q \in QIds :
          /\ (wpc[q] = "get" /\ queues[q] # <<>> /\ Head(queues[q]) = None
                /\ queues'[q] = Tail(queues[q])) => wpc'[q] = "done"
          /\ wpc[q] = "done" =>
                /\ wpc'[q] = "done"
                /\ received'[q] = received[q]
                /\ IsPrefix(queues[q], queues'[q])

\* C17: a worker that dequeues the exit signal leaves its loop for good: no
\* further dequeue, no handler call with the exit signal or after it.
C17_SentinelEndsWorker == []C17_State /\ [][C17_Step]_vars

\* A consumer thread has left its loop on an exit signal that was followed by
\* a message: the message stays in the queue and the callback was never called.
C17_Witness ==
    \E q \in PsQIds :
        /\ ps_wpc[q] = "done"
        /\ ps_queues[q] = << <<"t1", 2>> >>
        /\ ps_handled[q] = <<>>

\* The value of data["type"] has no entry in the handler table of the topic.
Unrouted(topic, msg) == em_data[msg] \notin DOMAIN TopicHandlers[topic]

\* Every call of an on_* method was made for a message whose type has that
\* method in a handler table, and the processing thread is alive while
\* _is_running is set.
C18_State ==
    /\ \A c \in em_called :
          \E topic \in DOMAIN TopicHandlers :
              /\ em_data[c[2]] \in DOMAIN TopicHandlers[topic]
              /\ TopicHandlers[topic][em_data[c[2]]].on = c[1]
    /\ em_running => em_i # 0

\* The handler thread of a message without an entry ends at once: no on_*
\* method is called, no message is built or put into a mailbox, nothing is
\* raised, and the processing thread stays where it is.
C18_Step ==
    \A h \in Handlers :
        (pc[h] = "H214" /\ pc'[h] # "H214" /\ Unrouted(loc[h].topic, loc[h].msg)) =>
            /\ pc'[h] = "idle" /\ ~loc'[h].raised
            /\ em_called' = em_called
            /\ npub' = npub /\ em_data' = em_data
            /\ queues' = queues /\ sub_list' = sub_list
            /\ em_i' = em_i /\ em_i # 0

\* C18: a message whose data type is not in the handler table of its topic
\* is dropped without a handler call, a derived message or an error, and the
\* Router goes on.
C18_UnknownTypeDropped == []C18_State /\ [][C18_Step]_vars

\* The first message had an unknown type and was dropped; the second one,
\* published after it, was routed to on_task_started all the same.
C18_Witness ==
    /\ <<"t1", 2>> \in DOMAIN em_data
    /\ em_data[<<"t1", 1>>] = "bogus"
    /\ em_nh = 2 /\ \A h \in Handlers : pc[h] = "idle"
    /\ em_called = {<<"on_task_started", <<"t1", 2>>>>}

\* C19: a handler thread that republishes always comes to the end of its
\* publish, whatever the processing thread and the subscribers do, and at
\* that point the derived message is in every mailbox of its snapshot.
C19_RepublishCompletes ==
    /\ \A k \in 1..MaxEmPub : (pc[HandlerNames[k]] # "idle") ~> (pc[HandlerNames[k]] = "idle")
    /\ [][\A h \in Handlers :
              (pc[h] = "L62" /\ pc'[h] = "idle") =>
                  /\ loc[h].i = Len(loc[h].snap) + 1
                  /\ ~loc'[h].raised
                  /\ \A k \in 1..Len(loc[h].snap) :
                        loc[h].msg \in Range(Hist(loc[h].snap[k]))]_vars

\* Two handler threads have republished to the subscriber's mailbox while its
\* worker never dequeued.
C19_Witness ==
    /\ \A h \in Handlers : pc[h] = "idle"
    /\ queues[TestSubQueue[2]] = << <<"h1", 1>>, <<"h2", 1>> >>
    /\ received[TestSubQueue[2]] = <<>> /\ wpc[TestSubQueue[2]] = "get"

\* C20: a put that returns True has called exactly the hooks registered for
\* the message's type, once each and in registration order, each of them with
\* the message already in the queue; the step that returns is the step that
\* called them.  A put that returns False or raises ValueError called no hook.
C20_HooksOncePerPut ==
    [][IsPutStep =>
          /\ cq_out'.kind \in {"True", "False", "ValueError"}
          /\ cq_out'.kind = "True" =>
                /\ cq_calls' = HooksFor(cq_out'.msg.type)
                /\ Len(cq_seen') = Len(cq_calls')
                /\ \A i \in 1..Len(cq_seen') : cq_seen'[i]
                /\ cq_inner' = Append(cq_inner, cq_out'.msg)
          /\ cq_out'.kind # "True" => cq_calls' = <<>> /\ cq_seen' = <<>>]_vars

\* Both types have hooks; a put of type "a" returned True after calling the
\* two hooks of "a" in the order they were registered, and not the hook of "b".
C20_Witness ==
    /\ cq_out.kind = "True" /\ cq_out.msg.type = "a"
    /\ HooksFor("a") = <<"hook_ok", "hook_raise">>
    /\ HooksFor("b") = <<"hook_ok">>
    /\ cq_calls = <<"hook_ok", "hook_raise">>
    /\ cq_seen = <<TRUE, TRUE>>

\* C21: once process_messages has dequeued None from one of its queues it
\* dequeues nothing more from any of them and starts no further handler
\* thread.
C21_SentinelEndsRouter ==
    [][em_sentinel =>
          /\ em_nh' = em_nh
          /\ \A k \in 1..Len(SubscribedQueues) :
                Len(queues'[SubscribedQueues[k][2]]) >= Len(queues[SubscribedQueues[k][2]])]_vars

\* The topic each data type is republished to, per inbound topic.
C22_TaskTopics ==
    ("task_started" :> "TASK_PROCESS_UPDATE") @@ ("task_finished" :> "TASK_PROCESS_UPDATE") @@
    ("task_process" :> "TASK_PROCESS_UPDATE") @@ ("window_status" :> "WINDOW_STATUS")
C22_UiTopics ==
    ("start_selected_task" :> "SELECTED_TASK_START") @@ ("stop_selected_task" :> "SELECTED_TASK_STOP") @@
    ("start_auto_task" :> "AUTO_TASK_START") @@
    ("start_advanced_auto_task" :> "ADVANCE_AUTO_TASK_START") @@
    ("resize_windows" :> "RESIZE_WINDOW") @@ ("close_windows" :> "CLOSE_WINDOW") @@
    ("auto_login" :> "AUTO_LOGIN")
C22_Assigned == ("FROM_TASK" :> C22_TaskTopics) @@ ("FROM_UI" :> C22_UiTopics)

\* Every handler thread has made at most one publish call; a derived message
\* is in the subscriber's mailbox only when it was published on the
\* subscriber's topic, once, and it is there when its publish call is over.
C22_State ==
    /\ \A h \in Handlers : Cardinality({p \in em_pub : p.msg[1] = h}) <= 1
    /\ Cardinality(em_pub) <= em_nh
    /\ \A i \in 1..Len(Hist(TestSubQueue[2])) :
          LET m == Hist(TestSubQueue[2])[i]
          IN m[1] \in Handlers =>
                /\ \E p \in em_pub : p.msg = m /\ p.topic = TestSubQueue[1]
                /\ \A j \in 1..Len(Hist(TestSubQueue[2])) : Hist(TestSubQueue[2])[j] = m => j = i
    /\ \A p \in em_pub :
          (pc[p.msg[1]] = "idle" /\ p.topic = TestSubQueue[1]) => p.msg \in Range(Hist(TestSubQueue[2]))

\* A dequeued message starts one handler thread with the topic of its queue;
\* the thread makes the one publish call the table of that topic assigns to
\* the data type, with the same data and the sender "EventManager", or none
\* when that table has no entry for the type.
C22_Step ==
    /\ \A k \in 1..Len(SubscribedQueues) :
          LET q == SubscribedQueues[k][2]
          IN (queues[q] # <<>> /\ queues'[q] = Tail(queues[q]) /\ Head(queues[q]) # None) =>
                /\ em_nh' = em_nh + 1
                /\ pc'[HandlerNames[em_nh + 1]] = "H214"
                /\ loc'[HandlerNames[em_nh + 1]].topic = SubscribedQueues[k][1]
                /\ loc'[HandlerNames[em_nh + 1]].msg = Head(queues[q])
    /\ \A h \in Handlers :
          (pc[h] = "H214" /\ pc'[h] # "H214") =>
              LET type == em_data[loc[h].msg]
                  assigned == C22_Assigned[loc[h].topic]
                  new == <<h, npub[h] + 1>>
              IN IF type \in DOMAIN assigned
                 THEN /\ new \notin {p.msg : p \in em_pub}
                      /\ em_pub' = em_pub \cup {[topic |-> assigned[type], msg |-> new,
                                                 sender |-> "EventManager", data |-> type]}
                      /\ em_data'[new] = type
                      /\ IF assigned[type] \in DOMAIN sub_list
                         THEN pc'[h] = "L61" /\ loc'[h].topic = assigned[type] /\ loc'[h].msg = new
                         ELSE pc'[h] = "idle"
                 ELSE em_pub' = em_pub /\ pc'[h] = "idle" /\ queues' = queues

\* C22: a message dequeued from FROM_TASK or FROM_UI whose data type is in
\* that topic's table causes exactly one derived message, published on the
\* topic the table assigns, with the inbound data and sender "EventManager";
\* a type of the other topic's table causes none.
C22_RoutedOnce == []C22_State /\ [][C22_Step]_vars

\* A task_finished message from FROM_TASK was republished on
\* TASK_PROCESS_UPDATE and the subscriber of that topic has received it.
C22_Witness ==
    /\ em_pub = {[topic |-> "TASK_PROCESS_UPDATE", msg |-> <<"h1", 1>>,
                  sender |-> "EventManager", data |-> "task_finished"]}
    /\ received[TestSubQueue[2]] = << <<"h1", 1>> >>
    /\ em_data[<<"t1", 1>>] = "task_finished"

\* The sentinels a mailbox was given: those still queued and the one its
\* worker has taken.
NoneCount(s) == Cardinality({i \in 1..Len(s) : s[i] = None})
Sentinels(q) == NoneCount(queues[q]) + (IF wpc[q] = "done" THEN 1 ELSE 0)
PsSentinels(q) == NoneCount(ps_queues[q]) + (IF ps_wpc[q] = "done" THEN 1 ELSE 0)
\* The subscriptions of a registry as a set of <<topic, key, mailbox>>.
RegKeys(sl) == UNION {{<<topic, sl[topic][i][1], sl[topic][i][2]>> : i \in 1..Len(sl[topic])} : topic \in DOMAIN sl}
AllIdle == \A t \in Threads : pc[t] = "idle" /\ ps_pc[t] = "idle"

C23_State ==
    /\ \A q \in QIds :
          /\ Sentinels(q) <= 1
          /\ (AllIdle /\ Mapped(q)) => Sentinels(q) = 0
          /\ (AllIdle /\ wpc[q] # "none" /\ ~Mapped(q)) => Sentinels(q) = 1
    /\ \A h \in ps_handles :
          /\ PsSentinels(h[3]) <= 1
          /\ AllIdle => PsSentinels(h[3]) = (IF h \in RegKeys(ps_topics) THEN 0 ELSE 1)

C23_Step ==
    /\ \A t \in Threads :
          LET key == <<loc[t].topic, loc[t].name, loc[t].old>>
          IN /\ (pc[t] = "L54" /\ pc'[t] # "L54") =>
                   LET q == DictGet(sub_list[loc[t].topic], loc[t].name)
                   IN /\ pc'[t] = "L55"
                      /\ queues' = [queues EXCEPT ![q] = Append(@, None)]
                      /\ sub_list' = sub_list
             /\ (pc[t] = "L55" /\ pc'[t] # "L55") =>
                   /\ pc'[t] = "L56"
                   /\ key \in RegKeys(sub_list)
                   /\ RegKeys(sub_list') = RegKeys(sub_list) \ {key}
                   /\ queues' = queues
             /\ (pc[t] \in {"L56", "L57"} /\ pc'[t] # pc[t]) =>
                   /\ ~loc'[t].raised
                   /\ RegKeys(sub_list') = RegKeys(sub_list)
                   /\ queues' = queues
    /\ \A t \in Threads :
          LET key == <<ps_loc[t].topic, ps_loc[t].sub_id, ps_loc[t].q>>
          IN /\ (ps_pc[t] = "P35" /\ ps_pc'[t] # "P35") =>
                   /\ ps_pc'[t] = "P36"
                   /\ key \in RegKeys(ps_topics)
                   /\ ps_queues' = [ps_queues EXCEPT ![ps_loc[t].q] = Append(@, None)]
                   /\ ps_topics' = ps_topics
             /\ (ps_pc[t] = "P36" /\ ps_pc'[t] # "P36") =>
                   /\ ps_pc'[t] = "P37"
                   /\ key \in RegKeys(ps_topics)
                   /\ RegKeys(ps_topics') = RegKeys(ps_topics) \ {key}
                   /\ ps_queues' = ps_queues
             /\ (ps_pc[t] \in {"P37", "P38"} /\ ps_pc'[t] # ps_pc[t]) =>
                   /\ ~ps_loc'[t].raised
                   /\ RegKeys(ps_topics') = RegKeys(ps_topics)
                   /\ ps_queues' = ps_queues

\* C23: with the calls of a registry made one after the other, unsubscribe
\* of a registered key puts one sentinel into the key's mailbox, then removes
\* the key, and touches no other subscription or mailbox; a mailbox is never
\* given a second sentinel, however often unsubscribe is repeated.
C23_UnsubscribeOnce == []C23_State /\ [][C23_Step]_vars

\* Of two subscribers of a topic the first was unsubscribed and its worker
\* has ended on the sentinel; the second is still registered, its mailbox
\* holding a message and no sentinel.
C23_Witness ==
    /\ AllIdle
    /\ sub_list = ("FROM_TASK" :> << <<"s2", 2>> >>)
    /\ wpc[1] = "done" /\ queues[1] = <<>>
    /\ queues[2] = << <<"t1", 1>> >>

\* The worker of the mailbox has left its loop without taking a sentinel.
Ended(state) == state = "dead"
\* Every message in the mailbox was put there after a sentinel.
OnlyAfterSentinel(s) == \A i \in 1..Len(s) : s[i] # None => \E j \in 1..(i - 1) : s[j] = None

\* C24: a worker hands the messages of its mailbox to its handler one at a
\* time in mailbox order; when it has left its loop no message put before the
\* sentinel is left unhandled; a handler call in flight is completed whatever
\* is put into the mailbox meanwhile.
C24_HandledBeforeExit ==
    /\ [](/\ \A q \in QIds : Ended(wpc[q]) => OnlyAfterSentinel(queues[q])
          /\ \A q \in PsQIds : Ended(ps_wpc[q]) => OnlyAfterSentinel(ps_queues[q]))
    /\ [][/\ \A q \in QIds :
               /\ (wpc[q] = "get" /\ wpc'[q] = "handle") =>
                     whand'[q] = Head(queues[q]) /\ queues'[q] = Tail(queues[q])
               /\ (wpc[q] = "handle" /\ wpc'[q] # "handle") =>
                     received'[q] = Append(received[q], whand[q]) /\ wpc'[q] = "get"
               /\ wpc[q] = "handle" => wpc'[q] \in {"handle", "get"}
          /\ \A q \in PsQIds :
               /\ (ps_wpc[q] = "get" /\ ps_wpc'[q] = "callback") =>
                     ps_whand'[q] = Head(ps_queues[q]) /\ ps_queues'[q] = Tail(ps_queues[q])
               /\ (ps_wpc[q] = "callback" /\ ps_wpc'[q] # "callback") =>
                     ps_handled'[q] = Append(ps_handled[q], ps_whand[q])
               /\ ps_wpc[q] = "callback" => ps_wpc'[q] \in {"callback", "get", "dead"}]_vars

\* C25: a get_by_type call with block=False and no timeout returns.
C25_NonBlockingReturns ==
    (gbt.pc # "idle" /\ ~gbt.block /\ ~gbt.hasTimeout) ~> (gbt.pc = "idle")

\* C26: the message get_by_type took from the mailbox and does not return is
\* in the mailbox again after line 144, and that line leaves the drop counter
\* alone.
C26_GetByTypeConserves ==
    [][(gbt.pc = "L144" /\ gbt'.pc # "L144") =>
          /\ \E i \in 1..Len(cq_inner') : cq_inner'[i] = gbt.msg
          /\ cq_dropped' = cq_dropped]_vars

\* C27: between the calls of the registry of pubsub_module, the worker of
\* every registered subscription has not left its loop on an exit signal.
C27_RegisteredWorkerLive ==
    \A h \in ps_handles :
        ((\A t \in Threads : ps_pc[t] = "idle") /\ h \in RegKeys(ps_topics)) => ps_wpc[h[3]] # "done"

\* C28: with two threads calling the registry, a subscribe call that is not a
\* replacement comes to its end without raising, and at its return the queue
\* it returns is the one registered under its name and topic.
C28_SubscribeReturnsRegistered ==
    [][\A t \in Threads :
          (pc[t] \in {"L45", "L46", "L48"} /\ loc[t].old = 0 /\ pc'[t] = "idle") =>
              /\ ~loc'[t].raised
              /\ loc[t].topic \in DOMAIN sub_list'
              /\ DictHas(sub_list'[loc[t].topic], loc[t].name)
              /\ DictGet(sub_list'[loc[t].topic], loc[t].name) = nextq]_vars

\* C29: no two subscribe calls of pubsub_module return the same sub_id.
C29_SubIdsDiffer ==
    \A g, h \in ps_handles : g[2] = h[2] => g = h

\* C30: once cleanup has returned, no topic of subscribe_to_topics has a
\* mailbox registered under the EventManager's subscriber name, and a publish
\* to these topics puts nothing into the EventManager's mailboxes.
C30_CleanupUnsubscribes ==
    /\ [](em_cleaned =>
            \A k \in 1..Len(SubscribedQueues) :
                LET topic == SubscribedQueues[k][1]
                IN ~(topic \in DOMAIN sub_list /\ DictHas(sub_list[topic], SubName)))
    /\ [][em_cleaned =>
            \A k \in 1..Len(SubscribedQueues) :
                Len(queues'[SubscribedQueues[k][2]]) <= Len(queues[SubscribedQueues[k][2]])]_vars

\* The topics the EventManager itself consumes.
RouterTopics == {SubscribedQueues[k][1] : k \in 1..Len(SubscribedQueues)}
\* No handler thread is running and the EventManager's mailboxes are empty.
RouterQuiet ==
    /\ \A h \in Handlers : pc[h] = "idle"
    /\ \A k \in 1..Len(SubscribedQueues) : queues[SubscribedQueues[k][2]] = <<>>

\* C31: no on_* method publishes to FROM_TASK or FROM_UI; the handler threads
\* started and the derived messages published are at most as many as the
\* messages the producers have published; and the handler threads end and the
\* EventManager's mailboxes drain for good.
C31_NoRepublishLoop ==
    /\ [](/\ \A p \in em_pub : p.topic \notin RouterTopics
          /\ em_nh <= npub["t1"]
          /\ Cardinality(em_pub) <= npub["t1"]
          /\ \A k \in 1..Len(SubscribedQueues) :
                \A i \in 1..Len(queues[SubscribedQueues[k][2]]) :
                    queues[SubscribedQueues[k][2]][i][1] \notin Handlers)
    /\ <>[]RouterQuiet

\* The one message of the producer was routed, its derived message published
\* to a topic nobody subscribes to, and nothing is left to do.
C31_Witness ==
    /\ RouterQuiet /\ pc["t1"] = "idle"
    /\ npub["t1"] = 1 /\ em_nh = 1
    /\ em_data[<<"t1", 1>>] = "start_selected_task"
    /\ em_pub = {[topic |-> "SELECTED_TASK_START", msg |-> <<"h1", 1>>,
                  sender |-> "EventManager", data |-> "start_selected_task"]}

\* The work-loop threads that have not ended.
BlLive == {w \in DOMAIN bl_thread : bl_thread[w].pc # "done"}
\* The messages with this wording among the first i of the output queue.
BlCount(text, i) == Cardinality({j \in 1..i : bl_out[j].text = text})
\* The command thread passes the tests of line 34 and 40 with a command that
\* fits neither branch.
BlIgnores ==
    /\ bl_pc.listener = "L34"
    /\ bl_pc'.listener # "L34"
    /\ \/ bl_cmd = START /\ bl_running
       \/ bl_cmd = STOP /\ ~bl_running

\* C32: at most one work-loop thread has not ended; every "stopped" message
\* in the output queue has the summary of the work loop it stopped before it;
\* a START while running and a STOP while not running leave running, the
\* threads and the output queue as they are and take the command thread back
\* to its get; and "stopped" is put only once the work loop has ended.
C32_State ==
    /\ Cardinality(BlLive) <= 1
    /\ \A i \in 1..Len(bl_out) :
          bl_out[i].text = "stopped" => BlCount("total", i) >= BlCount("stopped", i)
C32_Step ==
    /\ BlIgnores =>
          /\ bl_pc'.listener = "L31"
          /\ UNCHANGED <<bl_running, bl_thread, bl_out, bl_in>>
    /\ (bl_out' # bl_out /\ bl_out'[Len(bl_out')].text = "stopped") =>
          /\ BlLive = {}
          /\ BlCount("total", Len(bl_out)) > BlCount("stopped", Len(bl_out))
C32_OneWorkLoop == []C32_State /\ [][C32_Step]_vars

\* A work loop was started, sent data, was stopped and put its summary right
\* before "stopped"; the command thread now holds a second STOP.
C32_Witness ==
    /\ bl_pc.listener = "L34" /\ bl_cmd = STOP /\ ~bl_running
    /\ Len(bl_thread) = 1 /\ bl_thread[1] = [pc |-> "done", count |-> 1]
    /\ Len(bl_out) >= 2
    /\ bl_out[Len(bl_out)] = BlMessage("status_update", "stopped", 0)
    /\ bl_out[Len(bl_out) - 1] = BlMessage("status_update", "total", 1)

\* What C33 says of every state and of every step, whichever calls the
\* termination depends on: once run() has found the event set it is at the
\* loop test or has ended, and makes no further call of the target; a run()
\* that ended makes no call at all, and one that ended by an exception has
\* ended for good; a stop() on a set event changes nothing but the count of
\* stop() calls.
C33_State ==
    /\ tt.seen => tt.event /\ tt.pc \in {"L26", "done"}
    /\ tt.end # "" => tt.pc = "done"
C33_Step ==
    /\ tt.seen => tt'.calls = tt.calls /\ tt'.event
    /\ tt.pc = "done" => tt'.pc = "done" /\ tt'.calls = tt.calls /\ tt'.cbs = tt.cbs /\ tt'.end = tt.end
    /\ (tt.pc = "target" /\ tt'.pc \notin {"target", "L31"}) =>
            tt'.pc = "done" /\ tt'.end = "exception"
    /\ (tt.event /\ tt'.stops # tt.stops) => tt' = [tt EXCEPT !.stops = @ + 1]
\* run() has been started and stop() called.
TtStopped == tt.event /\ tt.pc # "new"

\* C33 as stated: besides the above, a started and stopped TaskThread ends
\* unless it stays in a call of the target for ever.
C33_EndsIfTargetReturns ==
    /\ []C33_State /\ [][C33_Step]_vars
    /\ (<>[](tt.pc = "target")) \/ (TtStopped ~> (tt.pc = "done"))

\* C33, amended: besides the above, a started and stopped TaskThread ends
\* unless it stays in a call of the target or of the callback for ever.
C33_EndsIfCallsReturn ==
    /\ []C33_State /\ [][C33_Step]_vars
    /\ (<>[](tt.pc \in {"target", "callback"})) \/ (TtStopped ~> (tt.pc = "done"))

\* stop() was called twice while the target was running; the target returned,
\* the callback was called and returned, and run() ended at its next test
\* without a second call of the target.
C33_Witness ==
    /\ tt.cls = "thread_module" /\ tt.target /\ tt.callback
    /\ tt.pc = "done" /\ tt.end = "stopped" /\ tt.seen
    /\ tt.calls = 1 /\ tt.cbs = 1 /\ tt.stops = 2

\* C34: once a call of the wrapper of a plain function f has returned, f has
\* been called once in a runner thread that has ended, and the call gave its
\* caller f's result or f's exception.
C34_WrapperRunsF ==
    asc.calls > 0 =>
        /\ asc.ran = 1 /\ asc.runner = "done"
        /\ asc.ret = IF asc.f = "raises" THEN "raises" ELSE asc.f

====
